---- MODULE Spec2Model ----
(***************************************************************************)
(* Converter selection and dispatch of docling-app:                        *)
(*   converters/registry.py      the lru_cache'd converter registry        *)
(*   converters/external.py      ExternalScriptConverter.detect / convert  *)
(*   services/json_conversion.py convert_markdown_to_json and its helpers  *)
(*   1/bump_script.py (and the five sibling scripts) the backend request   *)
(*                                                                         *)
(* Text is a sequence of chunks (short pieces of characters); a keyword is *)
(* the sequence of chunks that spells it, so str.count and the `in` test   *)
(* are computed by scanning, and str.lower by a per-chunk table.           *)
(* Scores are floats in the source; here they are fixed-point numbers in   *)
(* units of 1/ScoreUnit.                                                   *)
(***************************************************************************)
EXTENDS Integers, Sequences, FiniteSets, TLC

\* ------------------------------------------------------------------ bounds
MaxLen == 2          \* longest markdown, in chunks
MaxPaths == 2        \* names available in the scratch directory
NumThreads == 2
MaxUploads == 2      \* file ids a run hands out
MaxClock == 2        \* the clock stops here      \* threads calling get_converter_registry concurrently

\* --------------------------------------------------------------- constants
ScoreUnit == 4       \* fixed point: a float score s is stored as s * ScoreUnit
ConfidenceFloor == 1 * ScoreUnit
TopN == 5

None == "None"       \* Python's None, where the other values are strings
Nothing == [ none |-> TRUE ]   \* Python's None, where the other values are records or sequences
IsNone(x) == "none" \in DOMAIN x
Some(x) == [ some |-> x ]
Surrogate == "\\ud800"  \* a lone surrogate: str that utf-8 cannot encode

\* ---------------------------------------------------------------- registry
\* Mutant: the last record is declared under the report_id of the second.
RegistryOrderDuplicate ==
  << "ballistic", "bump_test", "vibration", "ammunition_lab", "igniter_test", "bump_test" >>

\* The report_id of the records of _SCRIPT_REGISTRY, in order.
RegistryOrder ==
  << "ballistic", "bump_test", "vibration", "ammunition_lab", "igniter_test", "peak_report" >>

ReportIds == { RegistryOrder[i] : i \in 1..Len(RegistryOrder) }

DisplayName ==
  [ ballistic      |-> "Ballistic Test Report",
    bump_test      |-> "Bump Test Report",
    vibration      |-> "Vibration Test Report",
    ammunition_lab |-> "Ammunition Laboratory Report",
    igniter_test   |-> "Igniter Test Report",
    peak_report    |-> "Chromatographic Peak Report" ]

Keywords ==
  [ ballistic      |-> << "ballistic test", "v0", "v20", "summary results", "velocity" >>,
    bump_test      |-> << "bump test", "accelerometer", "pulse duration", "total no of bumps" >>,
    vibration      |-> << "vibration test", "control parameters", "profile table", "schedule", "sweep rate" >>,
    ammunition_lab |-> << "lab test report", "sample name", "spec limits", "test parameters" >>,
    igniter_test   |-> << "igniter test", "rocket motor", "burn time", "volt" >>,
    peak_report    |-> << "chromatographic", "peak", "retention time", "peak results" >> ]

\* ------------------------------------------------------------------- text
\* The chunks a keyword is spelled with: one chunk per keyword, except
\* "peak results", which starts with the keyword "peak", and
\* "chromatographic", whose last letter is also its first (two occurrences
\* can share it: "chromatographichromatographic").
Spell(keyword) ==
  CASE keyword = "peak results" -> << "peak", " results" >>
    [] keyword = "chromatographic" -> << "c", "hromatographi", "c" >>
    [] OTHER -> << keyword >>

\* str.lower, chunk by chunk.
LowerChunk(c) ==
  CASE c = "Peak" -> "peak"
    [] c = "BUMP TEST" -> "bump test"
    [] c = "Volt" -> "volt"
    [] c = "PEAK" -> "peak"
    [] OTHER -> c

RECURSIVE Lower(_)
Lower(text) ==
  IF text = << >> THEN << >> ELSE << LowerChunk(Head(text)) >> \o Lower(Tail(text))

\* str.count: the number of non-overlapping occurrences, scanning from the left.
RECURSIVE CountFrom(_, _, _)
CountFrom(text, pat, i) ==
  IF i + Len(pat) - 1 > Len(text) THEN 0
  ELSE IF SubSeq(text, i, i + Len(pat) - 1) = pat
       THEN 1 + CountFrom(text, pat, i + Len(pat))
       ELSE CountFrom(text, pat, i + 1)

\* Mutant: a pattern that occurs counts once.
CountPresence(text, pat) == IF CountFrom(text, pat, 1) > 0 THEN 1 ELSE 0

Count(text, pat) == CountFrom(text, pat, 1)

\* `pat in text`
Contains(text, pat) ==
  \E i \in 1..Len(text) : i + Len(pat) - 1 <= Len(text) /\ SubSeq(text, i, i + Len(pat) - 1) = pat

\* DetectionContext(markdown, original_filename)
DetectionContext(markdown, original_filename) ==
  [ markdown |-> markdown, original_filename |-> original_filename ]

\* Mutant: a keyword found in the markdown counts once.
CreditPresence(keyword, text, filename) ==
  LET kw == Lower(Spell(keyword))
  IN  IF Count(text, kw) > 0 THEN 1
      ELSE IF kw # << >> /\ Contains(filename, kw) THEN 1
      ELSE 0

\* Mutant: the filename is credited on top of the markdown.
CreditFilenameAdds(keyword, text, filename) ==
  LET kw == Lower(Spell(keyword))
  IN  Count(text, kw) + (IF kw # << >> /\ Contains(filename, kw) THEN 1 ELSE 0)

\* One keyword's entry in `matched` (0: no entry), given the lowered
\* markdown and the lowered filename.
Credit(keyword, text, filename) ==
  LET kw == Lower(Spell(keyword))
      occurrences == Count(text, kw)
  IN  IF occurrences > 0 THEN occurrences
      ELSE IF kw # << >> /\ Contains(filename, kw) THEN 1
      ELSE 0

\* The dict `matched` after the loop over the keywords, as its items in
\* insertion order.
RECURSIVE Matched(_, _, _)
Matched(keywords, text, filename) ==
  IF keywords = << >> THEN << >>
  ELSE LET credit == Credit(Head(keywords), text, filename)
       IN  (IF credit > 0 THEN << [ keyword |-> Head(keywords), credit |-> credit ] >> ELSE << >>)
             \o Matched(Tail(keywords), text, filename)

\* sum(matched.values()) and list(matched.keys())
RECURSIVE SumValues(_)
SumValues(matched) ==
  IF matched = << >> THEN 0 ELSE Head(matched).credit + SumValues(Tail(matched))

RECURSIVE KeysOf(_)
KeysOf(matched) ==
  IF matched = << >> THEN << >> ELSE << Head(matched).keyword >> \o KeysOf(Tail(matched))

\* self.keywords of a converter: those its record declares; a converter
\* built from a ScriptSpec that declares none has the default, ().
KeywordsOf(rid) == IF rid \in DOMAIN Keywords THEN Keywords[rid] ELSE << >>

\* Mutant: without a match detect returns a result with score 0.
detectZeroResult(rid, context) ==
  LET text == Lower(context.markdown)
      filename == IF IsNone(context.original_filename) THEN << >>
                  ELSE Lower(context.original_filename.some)
      matched == Matched(KeywordsOf(rid), text, filename)
  IN  IF KeywordsOf(rid) = << >> THEN Nothing
      ELSE [ score |-> ScoreUnit * SumValues(matched), matched_keywords |-> KeysOf(matched) ]

\* Mutant: every credit counts for a quarter.
detectFraction(rid, context) ==
  LET text == Lower(context.markdown)
      filename == IF IsNone(context.original_filename) THEN << >>
                  ELSE Lower(context.original_filename.some)
      matched == Matched(KeywordsOf(rid), text, filename)
  IN  IF KeywordsOf(rid) = << >> THEN Nothing
      ELSE IF matched = << >> THEN Nothing
      ELSE [ score |-> SumValues(matched), matched_keywords |-> KeysOf(matched) ]

\* ExternalScriptConverter.detect: None, or DetectionResult(score, matched_keywords)
detect(rid, context) ==
  LET text == Lower(context.markdown)
      filename == IF IsNone(context.original_filename) THEN << >>
                  ELSE Lower(context.original_filename.some)
      matched == Matched(KeywordsOf(rid), text, filename)
  IN  IF KeywordsOf(rid) = << >> THEN Nothing
      ELSE IF matched = << >> THEN Nothing
      ELSE [ score |-> ScoreUnit * SumValues(matched), matched_keywords |-> KeysOf(matched) ]

\* ------------------------------------------------- selection policy (pure)
\* ReportCandidate(report_id, display_name, score, matched_keywords)
ReportCandidate(rid, score, matched_keywords) ==
  [ report_id |-> rid, display_name |-> DisplayName[rid],
    score |-> score, matched_keywords |-> matched_keywords ]

\* list.sort(key=score, reverse=True): stable, equal scores keep their order.
RECURSIVE InsertDesc(_, _)
InsertDesc(sorted, c) ==
  IF sorted = << >> THEN << c >>
  ELSE IF Head(sorted).score >= c.score
       THEN << Head(sorted) >> \o InsertDesc(Tail(sorted), c)
       ELSE << c >> \o sorted

RECURSIVE SortDesc(_)
SortDesc(results) ==
  IF results = << >> THEN << >>
  ELSE InsertDesc(SortDesc(SubSeq(results, 1, Len(results) - 1)), results[Len(results)])

\* Mutant: the whole list, whatever n.
TakeAll(results, n) == results

\* results[:n]
Take(results, n) == SubSeq(results, 1, IF Len(results) < n THEN Len(results) ELSE n)

MsgNoMatch == << "Unable to determine report type automatically." >>
MsgAmbiguous == << "Multiple report types matched with the same confidence. Please select one." >>
MsgLowConfidence == << "Detection confidence is low. Please specify report_id manually." >>

ReportDetectionError(message, candidates) ==
  [ kind |-> "ReportDetectionError", message |-> message, candidates |-> candidates ]

UnknownReportError(report_id) ==
  [ kind |-> "UnknownReportError",
    message |-> << "Report '", report_id, "' is not registered." >> ]

ReportConversionError(message) ==
  [ kind |-> "ReportConversionError", message |-> message ]

\* Mutant: no tie check.
SelectNoTieCheck(results, registry) ==
  LET sorted == SortDesc(results)
      best == sorted[1]
  IN  IF results = << >>
      THEN [ raise |-> ReportDetectionError(MsgNoMatch,
               [ i \in 1..Len(registry) |-> ReportCandidate(registry[i], 0, << >>) ]) ]
      ELSE IF best.score < ConfidenceFloor
      THEN [ raise |-> ReportDetectionError(MsgLowConfidence, Take(sorted, TopN)) ]
      ELSE [ selected |-> best ]

\* Mutant: the no-match error carries the (empty) result list.
SelectNoMatchFromResults(results, registry) ==
  LET sorted == SortDesc(results)
      best == sorted[1]
  IN  IF results = << >>
      THEN [ raise |-> ReportDetectionError(MsgNoMatch, results) ]
      ELSE IF Len(sorted) > 1 /\ sorted[2].score = best.score
      THEN [ raise |-> ReportDetectionError(MsgAmbiguous, Take(sorted, TopN)) ]
      ELSE IF best.score < ConfidenceFloor
      THEN [ raise |-> ReportDetectionError(MsgLowConfidence, Take(sorted, TopN)) ]
      ELSE [ selected |-> best ]

\* Mutant: the tie check is off by one and needs a third candidate.
SelectTieOffByOne(results, registry) ==
  LET sorted == SortDesc(results)
      best == sorted[1]
  IN  IF results = << >>
      THEN [ raise |-> ReportDetectionError(MsgNoMatch,
               [ i \in 1..Len(registry) |-> ReportCandidate(registry[i], 0, << >>) ]) ]
      ELSE IF Len(sorted) > 2 /\ sorted[2].score = best.score
      THEN [ raise |-> ReportDetectionError(MsgAmbiguous, Take(sorted, TopN)) ]
      ELSE IF best.score < ConfidenceFloor
      THEN [ raise |-> ReportDetectionError(MsgLowConfidence, Take(sorted, TopN)) ]
      ELSE [ selected |-> best ]

\* Mutant: no confidence floor.
SelectNoFloor(results, registry) ==
  LET sorted == SortDesc(results)
      best == sorted[1]
  IN  IF results = << >>
      THEN [ raise |-> ReportDetectionError(MsgNoMatch,
               [ i \in 1..Len(registry) |-> ReportCandidate(registry[i], 0, << >>) ]) ]
      ELSE IF Len(sorted) > 1 /\ sorted[2].score = best.score
      THEN [ raise |-> ReportDetectionError(MsgAmbiguous, Take(sorted, TopN)) ]
      ELSE [ selected |-> best ]

\* The part of _auto_detect_converter after the scan: what it raises, or the
\* candidate it selects.  `registry` is the dict's keys in insertion order.
Select(results, registry) ==
  LET sorted == SortDesc(results)
      best == sorted[1]
  IN  IF results = << >>
      THEN [ raise |-> ReportDetectionError(MsgNoMatch,
               [ i \in 1..Len(registry) |-> ReportCandidate(registry[i], 0, << >>) ]) ]
      ELSE IF Len(sorted) > 1 /\ sorted[2].score = best.score
      THEN [ raise |-> ReportDetectionError(MsgAmbiguous, Take(sorted, TopN)) ]
      ELSE IF best.score < ConfidenceFloor
      THEN [ raise |-> ReportDetectionError(MsgLowConfidence, Take(sorted, TopN)) ]
      ELSE [ selected |-> best ]

\* ---------------------------------------------------- scripts and backend
\* What the model backend does with the one request of a conversion.
BackendReplies ==
  { "valid", "invalid", "http_error", "connection_refused", "connect_timeout", "read_timeout" }

\* The classes of the requests exception a reply makes requests.post /
\* raise_for_status raise (empty: no exception).
RequestsClasses(reply) ==
  CASE reply = "connection_refused" -> { "ConnectionError", "RequestException" }
    [] reply = "connect_timeout" -> { "ConnectTimeout", "ConnectionError", "Timeout", "RequestException" }
    [] reply = "read_timeout" -> { "ReadTimeout", "Timeout", "RequestException" }
    [] reply = "http_error" -> { "HTTPError", "RequestException" }
    [] OTHER -> { }

\* What the file at a ScriptSpec's script_path defines under the entrypoint's
\* name: the function the repository ships, or, for a spec naming another
\* script, nothing, a value that cannot be called, a function with a
\* required parameter the adapter does not supply, or a function that returns
\* a list.
ScriptKinds == { "shipped", "no_entrypoint", "not_callable", "bad_signature", "returns_list" }

\* extract_*_from_md: the script's entrypoint, given the directory, the path
\* of the scratch file and the backend's reply.  The value returned carries
\* its Python type.
Entrypoint(script, rid, fs, md_file_path, reply) ==
  IF md_file_path \notin DOMAIN fs THEN [ raise |-> "FileNotFoundError" ]
  ELSE IF "ConnectionError" \in RequestsClasses(reply) THEN [ raise |-> "ConnectionError" ]
  ELSE IF "Timeout" \in RequestsClasses(reply) THEN [ raise |-> "TimeoutError" ]
  ELSE IF "RequestException" \in RequestsClasses(reply) THEN [ raise |-> "Exception" ]
  ELSE IF reply = "invalid" THEN [ raise |-> "ValidationError" ]
  ELSE [ return |-> [ type |-> IF script = "returns_list" THEN "list" ELSE "dict",
                      schema |-> rid, md_content |-> fs[md_file_path] ] ]

\* Mutant: the type of the entrypoint's result is not checked.
ConvertCallNoDictCheck(script, rid, fs, markdown_path, reply) ==
  IF script = "no_entrypoint"
  THEN [ raise |-> ReportConversionError(<< "Converter entrypoint missing in script of ", rid >>) ]
  ELSE IF script = "not_callable"
  THEN [ raise |-> ReportConversionError(<< "Converter entrypoint is not callable: ", rid >>) ]
  ELSE IF script = "bad_signature"
  THEN [ raise |-> ReportConversionError(<< "Converter entrypoint requires unsupported parameter" >>) ]
  ELSE LET result == Entrypoint(script, rid, fs, markdown_path, reply)
       IN  IF "raise" \in DOMAIN result
           THEN [ raise |-> ReportConversionError(<< "Converter '", rid, "' failed: ", result.raise >>) ]
           ELSE result

\* ExternalScriptConverter.convert once _load_module has returned the module:
\* hasattr, callable, _build_kwargs, the call of the entrypoint in its try
\* block, and the isinstance check.
ConvertCall(script, rid, fs, markdown_path, reply) ==
  IF script = "no_entrypoint"
  THEN [ raise |-> ReportConversionError(<< "Converter entrypoint missing in script of ", rid >>) ]
  ELSE IF script = "not_callable"
  THEN [ raise |-> ReportConversionError(<< "Converter entrypoint is not callable: ", rid >>) ]
  ELSE IF script = "bad_signature"
  THEN [ raise |-> ReportConversionError(<< "Converter entrypoint requires unsupported parameter" >>) ]
  ELSE LET result == Entrypoint(script, rid, fs, markdown_path, reply)
       IN  IF "raise" \in DOMAIN result
           THEN [ raise |-> ReportConversionError(<< "Converter '", rid, "' failed: ", result.raise >>) ]
           ELSE IF result.return.type # "dict"
           THEN [ raise |-> ReportConversionError(
                    << "Converter '", rid, "' must return a dict, got ", result.return.type >>) ]
           ELSE result

\* _run_converter's except clauses: what leaves the try block.
RunConverterExcept(pending) ==
  IF "return" \in DOMAIN pending THEN pending
  ELSE IF pending.raise.kind = "ReportConversionError" THEN pending
  ELSE [ raise |-> ReportConversionError(pending.raise.message) ]


\* -------------------------------------------------------------------- state
VARIABLES
  pc,          \* per thread: where its call stands
  args,        \* per thread: the arguments of its call
  frame,       \* per thread: the locals of its call
  outcome,     \* per thread: what the finished call returned or raised
  cache,       \* the lru_cache slot of get_converter_registry (0: empty)
  registries,  \* the registry dicts built so far; a dict's index is its identity
  module,      \* the module objects held in some converter's _module
  lock,        \* the converters (registry, report_id) whose _module_lock is held
  loads,       \* history: the module objects exec_module has completed
  files,       \* the scratch directory: the existing paths -> their content
  http,        \* the /convert handler on the event loop: its position and locals
  janitor,     \* per thread: its call of cleanup_expired_files, register_temp_file
               \* or resolve_temp_file
  temp_files,  \* app.temp_files: file_id -> entry
  uploads,     \* TEMP_UPLOAD_DIR: the upload files that exist, by file_id
  clock,       \* time.time()
  max_age,     \* app.TEMP_FILE_MAX_AGE, read from the environment at import
  removals     \* history: file_id issued -> how often a cleanup took its entry

\* The state of the dispatch layer and the state of the HTTP front end.
core == << pc, args, frame, outcome, cache, registries, module, lock, loads, files >>
front == << http, janitor, temp_files, uploads, clock, max_age, removals >>

vars == << pc, args, frame, outcome, cache, registries, module, lock, loads, files,
           http, janitor, temp_files, uploads, clock, max_age, removals >>

Threads == 1..NumThreads
Loop == 1            \* the event-loop thread of the HTTP front end
Paths == 1..MaxPaths

NoArgs == [ markdown |-> << >>, report_id |-> None, original_filename |-> Nothing ]

NoFrame ==
  [ route |-> None,          \* "explicit", "auto", "registry" (a bare registry call) or "detect"
    building |-> << >>,      \* get_converter_registry's local `registry`
    reg |-> 0,               \* the registry dict this call received
    context |-> Nothing,     \* the DetectionContext of the scan
    idx |-> 0,               \* position of the loop over _SCRIPT_REGISTRY / registry.values()
    results |-> << >>,
    detections |-> << >>,    \* history: the detect calls made, in order
    converter |-> None,
    score |-> 0,
    matched_keywords |-> << >>,
    created |-> 0,           \* tmp.name (0: no scratch file created)
    temp_path |-> 0,
    reply |-> None,          \* history: the backend's reply to this call's request
    converts |-> 0,          \* history: how often convert was invoked
    module |-> Nothing,      \* convert's local `module`
    pending |-> Nothing ]    \* what is leaving _run_converter's try block

\* The keys of a dict after d[k] = v, in insertion order.
DictInsert(d, k) ==
  IF \E i \in 1..Len(d) : d[i] = k THEN d ELSE Append(d, k)

Keys(d) == { d[i] : i \in 1..Len(d) }

\* ------------------------------------------------------------ inputs (Spec)
MdChunks == { "bump test", "Peak", "volt", "x", Surrogate }

RECURSIVE TextsOfLen(_)
TextsOfLen(n) ==
  IF n = 0 THEN { << >> }
  ELSE { Append(t, c) : t \in TextsOfLen(n - 1), c \in MdChunks }

Markdowns == UNION { TextsOfLen(n) : n \in 0..MaxLen }

Filenames == { Nothing, Some(<< "peak", ".pdf" >>) }

ReportIdArgs == { None, "", "bump_test", "unknown_report" }

\* utf-8 cannot encode a lone surrogate.
Encodable(text) == \A i \in 1..Len(text) : text[i] # Surrogate

TypeOK ==
  /\ pc \in [ Threads -> { "idle", "get_registry", "build", "have_registry", "scan",
                          "create_temp", "write_temp", "convert_load", "convert_exec",
                          "convert_run",
                          "cleanup", "done" } ]
  /\ cache \in 0..Len(registries)
  /\ DOMAIN files \subseteq Paths
  /\ \A p \in DOMAIN files : files[p] \in Markdowns
  /\ \A t \in Threads : frame[t].reg \in 0..Len(registries)
  /\ module \subseteq loads
  /\ \A conv \in lock : conv[1] \in 1..Len(registries) /\ conv[2] \in ReportIds

\* ------------------------------------------------- state of the front end
FileIds == 1..MaxUploads     \* the uuid4 values a run hands out

\* The /convert handler between requests.
NoHttp ==
  [ stage |-> "idle",        \* "stored", "ocr_done", "registered", "responded"
    file_id |-> 0,           \* 0: none drawn yet
    filename |-> << >>,      \* original_filename
    report_id |-> None,
    markdown |-> << >>,      \* markdown_content
    status |-> 0,            \* the status of the response (0: none yet)
    detail |-> Nothing,      \* the detail of the HTTPException, or the content
    cause |-> None,          \* history: what made the request fail
    ocr |-> FALSE,           \* history: run_docling was called
    dispatched |-> FALSE,    \* history: convert_markdown_to_json was called
    raised |-> Nothing,      \* history: the exception that call raised
    unlinked |-> FALSE,      \* history: the handler unlinked the upload
    original |-> Nothing ]   \* the last /original request: file_id and status

\* A thread that is in none of the three temp_files functions.
NoJanitor ==
  [ pc |-> "idle",           \* "cleanup", "sweep", "unlink", "build", "insert", "get", "done"
    op |-> None,             \* "cleanup", "register" or "resolve"
    max_age |-> Nothing,     \* the argument of cleanup_expired_files
    age_limit |-> 0,
    now |-> 0,
    stale_records |-> { },
    file_id |-> 0,
    created_at |-> 0,
    result |-> Nothing,      \* what resolve_temp_file returned or raised
    at |-> 0 ]               \* history: the time at which it did

NoTempFiles == [ f \in { } |-> Nothing ]
NoRemovals == [ f \in { } |-> 0 ]

\* TEMP_FILE_MAX_AGE when the environment does not set it: 3600 s, one unit
\* of the clock.
DefaultMaxAge == 1

\* The front end after import.
FrontIdle(age) ==
  /\ http = NoHttp
  /\ janitor = [ t \in Threads |-> NoJanitor ]
  /\ temp_files = NoTempFiles
  /\ uploads = { }
  /\ clock = 0
  /\ max_age = age
  /\ removals = NoRemovals

Init ==
  /\ FrontIdle(DefaultMaxAge)
  /\ pc = [ t \in Threads |-> "idle" ]
  /\ args = [ t \in Threads |-> NoArgs ]
  /\ frame = [ t \in Threads |-> NoFrame ]
  /\ outcome = [ t \in Threads |-> Nothing ]
  /\ cache = 0
  /\ registries = << >>
  /\ module = { }
  /\ lock = { }
  /\ loads = { }
  /\ files = [ p \in { } |-> << >> ]

\* ------------------------------------------------ get_converter_registry
\* lru_cache wrapper, before the call: a hit returns the cached dict, a miss
\* enters the function body.
CacheLookup(t) ==
  /\ pc[t] = "get_registry"
  /\ IF cache # 0
     THEN /\ frame' = [ frame EXCEPT ![t].reg = cache ]
          /\ pc' = [ pc EXCEPT ![t] = "have_registry" ]
     ELSE /\ frame' = [ frame EXCEPT ![t].building = << >>, ![t].idx = 0 ]
          /\ pc' = [ pc EXCEPT ![t] = "build" ]
  /\ UNCHANGED << args, outcome, cache, registries, module, lock, loads, files, front >>

\* One iteration of the loop over _SCRIPT_REGISTRY:
\* registry[converter.report_id] = converter.
BuildRecord(t) ==
  /\ pc[t] = "build"
  /\ frame[t].idx < Len(RegistryOrder)
  /\ frame' = [ frame EXCEPT ![t].building = DictInsert(@, RegistryOrder[frame[t].idx + 1]),
                             ![t].idx = @ + 1 ]
  /\ UNCHANGED << pc, args, outcome, cache, registries, module, lock, loads, files, front >>

\* lru_cache wrapper, after the body returned: the result is stored unless
\* the key was added meanwhile; the caller gets the dict its own call built.
CacheStore(t) ==
  /\ pc[t] = "build"
  /\ frame[t].idx = Len(RegistryOrder)
  /\ registries' = Append(registries, frame[t].building)
  /\ cache' = IF cache = 0 THEN Len(registries) + 1 ELSE cache
  /\ frame' = [ frame EXCEPT ![t].reg = Len(registries) + 1, ![t].idx = 0 ]
  /\ pc' = [ pc EXCEPT ![t] = "have_registry" ]
  /\ UNCHANGED << args, outcome, module, lock, loads, files, front >>

\* A caller of get_converter_registry alone (list_report_descriptors).
RegistryCall(t) ==
  /\ pc[t] = "idle"
  /\ frame' = [ frame EXCEPT ![t] = [ NoFrame EXCEPT !.route = "registry" ] ]
  /\ pc' = [ pc EXCEPT ![t] = "get_registry" ]
  /\ UNCHANGED << args, outcome, cache, registries, module, lock, loads, files, front >>

RegistryReturn(t) ==
  /\ pc[t] = "have_registry"
  /\ frame[t].route = "registry"
  /\ outcome' = [ outcome EXCEPT ![t] = [ kind |-> "registry", registry |-> frame[t].reg ] ]
  /\ pc' = [ pc EXCEPT ![t] = "done" ]
  /\ UNCHANGED << args, frame, cache, registries, module, lock, loads, files, front >>

\* The caller has its result; the thread is free for the next call.
Return(t) ==
  /\ pc[t] = "done"
  /\ pc' = [ pc EXCEPT ![t] = "idle" ]
  /\ args' = [ args EXCEPT ![t] = NoArgs ]
  /\ frame' = [ frame EXCEPT ![t] = NoFrame ]
  /\ outcome' = [ outcome EXCEPT ![t] = Nothing ]
  /\ UNCHANGED << cache, registries, module, lock, loads, files, front >>


\* ------------------------------------------------------ dispatch helpers
\* get_converter_by_id, given the registry's keys.
get_converter_by_id(registry, report_id) ==
  IF report_id \notin Keys(registry)
  THEN [ raise |-> [ kind |-> "KeyError", message |-> << report_id >> ] ]
  ELSE [ return |-> report_id ]

\* Mutant: the KeyError is not translated.
GetConverterOrRaiseNoWrap(registry, report_id) ==
  get_converter_by_id(registry, report_id)

\* _get_converter_or_raise: a KeyError becomes UnknownReportError.
GetConverterOrRaise(registry, report_id) ==
  LET found == get_converter_by_id(registry, report_id)
  IN  IF "raise" \in DOMAIN found /\ found.raise.kind = "KeyError"
      THEN [ raise |-> UnknownReportError(report_id) ]
      ELSE found

\* Mutant: `if report_id is not None:`.
TruthyNotNone(report_id) == report_id # None

\* `if report_id:`
Truthy(report_id) == report_id \notin { None, "" }

\* Mutant: the loop breaks at the first candidate.
ScanOverFirstHit(idx, results, registry) == idx > Len(registry) \/ results # << >>

\* The for loop over registry.values() has run out.
ScanOver(idx, results, registry) == idx > Len(registry)

\* ------------------------------------------------ convert_markdown_to_json
\* The call is made; `if report_id:` picks the path, and both paths begin
\* by asking for the registry.
Call(t, markdowns, filenames, ids) ==
  /\ pc[t] = "idle"
  /\ \E markdown \in markdowns, original_filename \in filenames, report_id \in ids :
       /\ args' = [ args EXCEPT ![t] = [ markdown |-> markdown, report_id |-> report_id,
                                         original_filename |-> original_filename ] ]
       /\ frame' = [ frame EXCEPT ![t] =
            [ NoFrame EXCEPT !.route = IF Truthy(report_id) THEN "explicit" ELSE "auto" ] ]
  /\ pc' = [ pc EXCEPT ![t] = "get_registry" ]
  /\ UNCHANGED << outcome, cache, registries, module, lock, loads, files, front >>

\* Any converter the BaseReportConverter contract admits: detect returns None
\* or a DetectionResult with a float score (here 0.0, 0.25, 0.5 or 1.0).
PolicyScores == { 0, 1, 2, ScoreUnit }

AnyDetect(rid, context) ==
  { Nothing } \cup
  { [ score |-> s,
      matched_keywords |-> IF s > 0 THEN << Keywords[rid][1] >> ELSE << >> ] : s \in PolicyScores }

\* converter.detect(context), by the class of the converter: the results it
\* may give.
DetectOf(class, rid, context) ==
  IF class = "ExternalScriptConverter" THEN { detect(rid, context) }
  ELSE AnyDetect(rid, context)

\* Mutant: a missing detection result is reported as the confidence floor.
DetectionScoreFloor(detection_result) ==
  IF IsNone(detection_result) THEN ConfidenceFloor ELSE detection_result.score

\* `detection_result.score if detection_result else 0.0`
DetectionScore(detection_result) ==
  IF IsNone(detection_result) THEN 0 ELSE detection_result.score

\* Explicit path: _get_converter_or_raise, then detect on the chosen converter
\* (of the given class).
ExplicitLookup(t, class) ==
  /\ pc[t] = "have_registry"
  /\ frame[t].route = "explicit"
  /\ LET report_id == args[t].report_id
         context == DetectionContext(args[t].markdown, args[t].original_filename)
         found == GetConverterOrRaise(registries[frame[t].reg], report_id)
     IN  IF "raise" \in DOMAIN found
         THEN /\ outcome' = [ outcome EXCEPT ![t] = found.raise ]
              /\ pc' = [ pc EXCEPT ![t] = "done" ]
              /\ UNCHANGED frame
         ELSE /\ \E detection_result \in DetectOf(class, found.return, context) :
                   frame' = [ frame EXCEPT
                     ![t].converter = found.return,
                     ![t].detections = Append(@, [ report_id |-> found.return, context |-> context ]),
                     ![t].score = DetectionScore(detection_result),
                     ![t].matched_keywords = IF IsNone(detection_result) THEN << >>
                                             ELSE detection_result.matched_keywords ]
              /\ pc' = [ pc EXCEPT ![t] = "create_temp" ]
              /\ UNCHANGED outcome
  /\ UNCHANGED << args, cache, registries, module, lock, loads, files, front >>

\* Auto-detect path: the context is built once, the scan starts.
BeginScan(t) ==
  /\ pc[t] = "have_registry"
  /\ frame[t].route = "auto"
  /\ frame' = [ frame EXCEPT
       ![t].context = DetectionContext(args[t].markdown, args[t].original_filename),
       ![t].results = << >>,
       ![t].idx = 1 ]
  /\ pc' = [ pc EXCEPT ![t] = "scan" ]
  /\ UNCHANGED << args, outcome, cache, registries, module, lock, loads, files, front >>

\* One iteration of `for converter in registry.values()`.
DetectStep(t, class) ==
  /\ pc[t] = "scan"
  /\ ~ScanOver(frame[t].idx, frame[t].results, registries[frame[t].reg])
  /\ LET rid == registries[frame[t].reg][frame[t].idx]
         context == frame[t].context
     IN  \E detection \in DetectOf(class, rid, context) :
           frame' = [ frame EXCEPT
             ![t].idx = @ + 1,
             ![t].detections = Append(@, [ report_id |-> rid, context |-> context ]),
             ![t].results =
               IF ~IsNone(detection) /\ detection.score > 0
               THEN Append(@, ReportCandidate(rid, detection.score, detection.matched_keywords))
               ELSE @ ]
  /\ UNCHANGED << pc, args, outcome, cache, registries, module, lock, loads, files, front >>

\* Mutant: the scratch file is created before the decision is made.
DecideWithScratch(t) ==
  /\ pc[t] = "scan"
  /\ ScanOver(frame[t].idx, frame[t].results, registries[frame[t].reg])
  /\ LET choice == Select(frame[t].results, registries[frame[t].reg])
     IN  IF "raise" \in DOMAIN choice
         THEN /\ outcome' = [ outcome EXCEPT ![t] = choice.raise ]
              /\ pc' = [ pc EXCEPT ![t] = "done" ]
              /\ \E p \in Paths :
                   /\ p \notin DOMAIN files
                   /\ files' = [ q \in DOMAIN files \cup { p } |->
                                   IF q = p THEN args[t].markdown ELSE files[q] ]
                   /\ frame' = [ frame EXCEPT ![t].created = p ]
         ELSE /\ frame' = [ frame EXCEPT
                   ![t].converter = choice.selected.report_id,
                   ![t].score = choice.selected.score,
                   ![t].matched_keywords = choice.selected.matched_keywords ]
              /\ pc' = [ pc EXCEPT ![t] = "create_temp" ]
              /\ UNCHANGED << outcome, files >>
  /\ UNCHANGED << args, cache, registries, module, lock, loads, front >>

\* The scan is over: raise a ReportDetectionError or go on with the best.
Decide(t) ==
  /\ pc[t] = "scan"
  /\ ScanOver(frame[t].idx, frame[t].results, registries[frame[t].reg])
  /\ LET choice == Select(frame[t].results, registries[frame[t].reg])
     IN  IF "raise" \in DOMAIN choice
         THEN /\ outcome' = [ outcome EXCEPT ![t] = choice.raise ]
              /\ pc' = [ pc EXCEPT ![t] = "done" ]
              /\ UNCHANGED frame
         ELSE /\ frame' = [ frame EXCEPT
                   ![t].converter = choice.selected.report_id,
                   ![t].score = choice.selected.score,
                   ![t].matched_keywords = choice.selected.matched_keywords ]
              /\ pc' = [ pc EXCEPT ![t] = "create_temp" ]
              /\ UNCHANGED outcome
  /\ UNCHANGED << args, cache, registries, module, lock, loads, files, front >>


\* ----------------------------------------------------------- _run_converter
\* Mutant: the scratch file is opened under a name that may be in use.
CreateTempAnyName(t) ==
  /\ pc[t] = "create_temp"
  /\ \E p \in Paths :
       /\ files' = [ q \in DOMAIN files \cup { p } |-> IF q = p THEN << >> ELSE files[q] ]
       /\ frame' = [ frame EXCEPT ![t].created = p ]
  /\ pc' = [ pc EXCEPT ![t] = "write_temp" ]
  /\ UNCHANGED << args, outcome, cache, registries, module, lock, loads, front >>

\* NamedTemporaryFile(delete=False): a new, empty file under a name no
\* existing file has.
CreateTemp(t) ==
  /\ pc[t] = "create_temp"
  /\ \E p \in Paths :
       /\ p \notin DOMAIN files
       /\ files' = [ q \in DOMAIN files \cup { p } |-> IF q = p THEN << >> ELSE files[q] ]
       /\ frame' = [ frame EXCEPT ![t].created = p ]
  /\ pc' = [ pc EXCEPT ![t] = "write_temp" ]
  /\ UNCHANGED << args, outcome, cache, registries, module, lock, loads, front >>

\* tmp.write; tmp.flush; temp_path = Path(tmp.name); the with block closes the
\* file.  Text that cannot be encoded makes write raise: nothing was written,
\* the with block still closes the file, and the exception leaves the call.
WriteTemp(t) ==
  /\ pc[t] = "write_temp"
  /\ IF Encodable(args[t].markdown)
     THEN /\ files' = [ files EXCEPT ![frame[t].created] = args[t].markdown ]
          /\ frame' = [ frame EXCEPT ![t].temp_path = frame[t].created ]
          /\ pc' = [ pc EXCEPT ![t] = "convert_load" ]
          /\ UNCHANGED outcome
     ELSE /\ outcome' = [ outcome EXCEPT ![t] =
                [ kind |-> "UnicodeEncodeError",
                  message |-> << "'utf-8' codec can't encode character: surrogates not allowed" >> ] ]
          /\ pc' = [ pc EXCEPT ![t] = "done" ]
          /\ UNCHANGED << files, frame >>
  /\ UNCHANGED << args, cache, registries, module, lock, loads, front >>

\* What the environment makes of loading a script that is not loaded yet:
\* it loads, the file is gone, or exec_module raises (an import of the script
\* fails).  An exception of exec_module leaves convert as it is.
LoadOutcomes == { "loaded", "script_missing", "exec_failed" }

\* self._module of a converter conv = (registry, report_id): the module
\* objects it holds (none or one).
CachedModule(conv) == { o \in module : << o.reg, o.report_id >> = conv }

\* Mutant: _load_module runs without the lock.
LockFreeAlways(held, conv) == TRUE

\* `with self._module_lock:` can be entered.
LockFree(held, conv) == conv \notin held

\* converter.convert begins: _load_module takes the converter's lock, returns
\* the cached module, or raises because the script file is missing (both
\* release the lock), or goes on to execute the script with the lock held.
LoadModule(t) ==
  /\ pc[t] = "convert_load"
  /\ LET conv == << frame[t].reg, frame[t].converter >>
     IN  /\ LockFree(lock, conv)
         /\ IF CachedModule(conv) # { }
            THEN /\ frame' = [ frame EXCEPT ![t].converts = @ + 1,
                      ![t].module = CHOOSE o \in CachedModule(conv) : TRUE ]
                 /\ pc' = [ pc EXCEPT ![t] = "convert_run" ]
                 /\ UNCHANGED lock
            ELSE \E o \in LoadOutcomes :
                   IF o = "script_missing"
                   THEN /\ frame' = [ frame EXCEPT ![t].converts = @ + 1,
                             ![t].pending = [ raise |-> ReportConversionError(
                                << "Converter script not found: ", frame[t].converter >>) ] ]
                        /\ pc' = [ pc EXCEPT ![t] = "cleanup" ]
                        /\ UNCHANGED lock
                   ELSE /\ frame' = [ frame EXCEPT ![t].converts = @ + 1 ]
                        /\ pc' = [ pc EXCEPT ![t] = "convert_exec" ]
                        /\ lock' = lock \cup { conv }
  /\ UNCHANGED << args, outcome, cache, registries, module, loads, files, front >>

\* spec.loader.exec_module(module); self._module = module; the with block
\* releases the lock.  The script at script_path is one of `scripts`.
ExecModule(t, scripts) ==
  /\ pc[t] = "convert_exec"
  /\ LET conv == << frame[t].reg, frame[t].converter >>
     IN  /\ \E o \in LoadOutcomes \ { "script_missing" } :
              IF o = "loaded"
              THEN \E script \in scripts :
                     LET loaded == [ reg |-> conv[1], report_id |-> conv[2], script |-> script,
                                     n |-> 1 + Cardinality({ m \in loads :
                                                              << m.reg, m.report_id >> = conv }) ]
                     IN  /\ loads' = loads \cup { loaded }
                         /\ module' = (module \ CachedModule(conv)) \cup { loaded }
                         /\ frame' = [ frame EXCEPT ![t].module = loaded ]
                         /\ pc' = [ pc EXCEPT ![t] = "convert_run" ]
              ELSE /\ frame' = [ frame EXCEPT ![t].pending = [ raise |->
                        [ kind |-> "ImportError", message |-> << "No module named 'requests'" >> ] ] ]
                   /\ pc' = [ pc EXCEPT ![t] = "cleanup" ]
                   /\ UNCHANGED << module, loads >>
         /\ lock' = lock \ { conv }
  /\ UNCHANGED << args, outcome, cache, registries, files, front >>

\* The rest of converter.convert with the module it got: the entrypoint reads
\* the scratch file and makes its one request to the model backend.
RunEntrypoint(t) ==
  /\ pc[t] = "convert_run"
  /\ \E reply \in BackendReplies :
       LET script == frame[t].module.script
           called == script \in { "shipped", "returns_list" }
                       /\ frame[t].temp_path \in DOMAIN files
       IN  frame' = [ frame EXCEPT
             ![t].reply = IF called THEN reply ELSE None,
             ![t].pending = ConvertCall(script, frame[t].converter, files, frame[t].temp_path, reply) ]
  /\ pc' = [ pc EXCEPT ![t] = "cleanup" ]
  /\ UNCHANGED << args, outcome, cache, registries, module, lock, loads, files, front >>

\* temp_path.unlink(); a file that is already gone is not an error.
Unlink(fs, p) == [ q \in DOMAIN fs \ { p } |-> fs[q] ]

\* JsonConversionOutcome(...)
JsonConversionOutcome(rid, data, score, matched_keywords) ==
  [ kind |-> "outcome", report_id |-> rid, display_name |-> DisplayName[rid],
    data |-> data, score |-> score, matched_keywords |-> matched_keywords ]

\* The except clauses and the finally block of _run_converter, then the
\* return of convert_markdown_to_json.
Cleanup(t) ==
  /\ pc[t] = "cleanup"
  /\ frame[t].route \in { "explicit", "auto" }
  /\ LET leaving == RunConverterExcept(frame[t].pending)
     IN  outcome' = [ outcome EXCEPT ![t] =
           IF "return" \in DOMAIN leaving
           THEN JsonConversionOutcome(frame[t].converter, leaving.return,
                                      frame[t].score, frame[t].matched_keywords)
           ELSE leaving.raise ]
  /\ files' = Unlink(files, frame[t].temp_path)
  /\ pc' = [ pc EXCEPT ![t] = "done" ]
  /\ UNCHANGED << args, frame, cache, registries, module, lock, loads, front >>

\* ------------------------------------------------- detect, called directly
\* A library caller takes a converter from the registry and calls its detect.
DetectCall(t, markdowns, filenames, ids) ==
  /\ pc[t] = "idle"
  /\ \E markdown \in markdowns, original_filename \in filenames, report_id \in ids :
       args' = [ args EXCEPT ![t] = [ markdown |-> markdown, report_id |-> report_id,
                                      original_filename |-> original_filename ] ]
  /\ frame' = [ frame EXCEPT ![t] = [ NoFrame EXCEPT !.route = "detect" ] ]
  /\ pc' = [ pc EXCEPT ![t] = "get_registry" ]
  /\ UNCHANGED << outcome, cache, registries, module, lock, loads, files, front >>

\* Mutant: detect loads the converter's script to look at it.
DetectReturnLoads(t) ==
  /\ pc[t] = "have_registry"
  /\ frame[t].route = "detect"
  /\ LET context == DetectionContext(args[t].markdown, args[t].original_filename)
         conv == << frame[t].reg, args[t].report_id >>
         loaded == [ reg |-> conv[1], report_id |-> conv[2], script |-> "shipped",
                     n |-> 1 + Cardinality({ m \in loads : << m.reg, m.report_id >> = conv }) ]
     IN  /\ outcome' = [ outcome EXCEPT ![t] =
              [ kind |-> "detection", result |-> detect(args[t].report_id, context) ] ]
         /\ loads' = IF { m \in module : << m.reg, m.report_id >> = conv } = { }
                     THEN loads \cup { loaded } ELSE loads
         /\ module' = IF { m \in module : << m.reg, m.report_id >> = conv } = { }
                      THEN module \cup { loaded } ELSE module
  /\ frame' = [ frame EXCEPT ![t].converter = args[t].report_id ]
  /\ pc' = [ pc EXCEPT ![t] = "done" ]
  /\ UNCHANGED << args, cache, registries, lock, files, front >>

\* Mutant: detect gives a result only once the converter's script is loaded.
DetectReturnLoaded(t) ==
  /\ pc[t] = "have_registry"
  /\ frame[t].route = "detect"
  /\ LET context == DetectionContext(args[t].markdown, args[t].original_filename)
     IN  outcome' = [ outcome EXCEPT ![t] =
           [ kind |-> "detection",
             result |-> IF CachedModule(<< frame[t].reg, args[t].report_id >>) # { }
                        THEN detect(args[t].report_id, context) ELSE Nothing ] ]
  /\ frame' = [ frame EXCEPT ![t].converter = args[t].report_id ]
  /\ pc' = [ pc EXCEPT ![t] = "done" ]
  /\ UNCHANGED << args, cache, registries, module, lock, loads, files, front >>

\* get_converter_by_id(report_id).detect(DetectionContext(...)) returns.
DetectReturn(t) ==
  /\ pc[t] = "have_registry"
  /\ frame[t].route = "detect"
  /\ LET context == DetectionContext(args[t].markdown, args[t].original_filename)
     IN  outcome' = [ outcome EXCEPT ![t] =
           [ kind |-> "detection", result |-> detect(args[t].report_id, context) ] ]
  /\ frame' = [ frame EXCEPT ![t].converter = args[t].report_id ]
  /\ pc' = [ pc EXCEPT ![t] = "done" ]
  /\ UNCHANGED << args, cache, registries, module, lock, loads, files, front >>

\* ------------------------------------------------ convert, called directly
\* A library caller takes a converter from the registry and calls its convert
\* with the path of a markdown file of its own.
ConvertDirect(t, ids) ==
  /\ pc[t] = "idle"
  /\ \E report_id \in ids :
       args' = [ args EXCEPT ![t] = [ NoArgs EXCEPT !.report_id = report_id ] ]
  /\ frame' = [ frame EXCEPT ![t] = [ NoFrame EXCEPT !.route = "convert" ] ]
  /\ pc' = [ pc EXCEPT ![t] = "get_registry" ]
  /\ UNCHANGED << outcome, cache, registries, module, lock, loads, files, front >>

\* get_converter_by_id(report_id).convert(markdown, markdown_path, settings)
\* is entered; the path is that of an existing file, or of none (0).
ConvertEnter(t) ==
  /\ pc[t] = "have_registry"
  /\ frame[t].route = "convert"
  /\ \E p \in DOMAIN files \cup { 0 } :
       frame' = [ frame EXCEPT ![t].converter = args[t].report_id, ![t].temp_path = p ]
  /\ pc' = [ pc EXCEPT ![t] = "convert_load" ]
  /\ UNCHANGED << args, outcome, cache, registries, module, lock, loads, files, front >>

\* convert returns its dict or raises, to the library caller.
ConvertReturn(t) ==
  /\ pc[t] = "cleanup"
  /\ frame[t].route = "convert"
  /\ outcome' = [ outcome EXCEPT ![t] =
       IF "return" \in DOMAIN frame[t].pending
       THEN [ kind |-> "converted", data |-> frame[t].pending.return ]
       ELSE frame[t].pending.raise ]
  /\ pc' = [ pc EXCEPT ![t] = "done" ]
  /\ UNCHANGED << args, frame, cache, registries, module, lock, loads, files, front >>

\* ------------------------------------------------------ app.py: temp_files
\* `now - created_at > age_limit`
Expired(entry, now, age_limit) == now - entry.created_at > age_limit

\* The file ids cleanup_expired_files finds stale under the lock.
StaleIds(table, now, age_limit) ==
  { f \in DOMAIN table : Expired(table[f], now, age_limit) }

\* temp_files.pop(file_id, None) for each of ids.
Pop(table, ids) == [ f \in DOMAIN table \ ids |-> table[f] ]

\* temp_files[file_id] = entry
Put(table, file_id, entry) ==
  [ f \in DOMAIN table \cup { file_id } |-> IF f = file_id THEN entry ELSE table[f] ]

\* `max_age if max_age is not None else TEMP_FILE_MAX_AGE`
AgeLimit(arg, configured) == IF IsNone(arg) THEN configured ELSE arg.some

\* The entry register_temp_file builds; the path is that of the upload.
Entry(file_id, created_at) == [ path |-> file_id, created_at |-> created_at ]

\* The history of removals after a cleanup took the entries of ids.
Removed(counts, ids) ==
  [ f \in DOMAIN counts |-> IF f \in ids THEN counts[f] + 1 ELSE counts[f] ]

\* uuid4: an id never handed out before.
FreshIds == FileIds \ DOMAIN removals

\* time.time() advances.  The clock is read by the three functions below
\* only, none of which is called inside the dispatch call: the time that call
\* takes passes when it has returned.
Tick ==
  /\ clock < MaxClock
  /\ pc[Loop] = "idle"
  /\ clock' = clock + 1
  /\ UNCHANGED << core, http, janitor, temp_files, uploads, max_age, removals >>

\* ----- the three functions, step by step, as called from any thread
\* cleanup_expired_files(max_age) is called.
CleanupCall(t, args_max_age) ==
  /\ janitor[t].pc = "idle"
  /\ \E arg \in args_max_age :
       janitor' = [ janitor EXCEPT ![t] =
         [ NoJanitor EXCEPT !.pc = "cleanup", !.op = "cleanup", !.max_age = arg ] ]
  /\ UNCHANGED << core, http, temp_files, uploads, clock, max_age, removals >>

\* register_temp_file(file_id, file_path, ...) is called for an upload its
\* caller has stored under a new id; it begins with cleanup_expired_files().
RegisterCall(t) ==
  /\ janitor[t].pc = "idle"
  /\ \E f \in FreshIds :
       /\ janitor' = [ janitor EXCEPT ![t] =
            [ NoJanitor EXCEPT !.pc = "cleanup", !.op = "register", !.file_id = f ] ]
       /\ uploads' = uploads \cup { f }
       /\ removals' = Put(removals, f, 0)
  /\ UNCHANGED << core, http, temp_files, clock, max_age >>

\* resolve_temp_file(file_id) is called; it begins with
\* cleanup_expired_files().
ResolveCall(t) ==
  /\ janitor[t].pc = "idle"
  /\ \E f \in FileIds :
       janitor' = [ janitor EXCEPT ![t] =
         [ NoJanitor EXCEPT !.pc = "cleanup", !.op = "resolve", !.file_id = f ] ]
  /\ UNCHANGED << core, http, temp_files, uploads, clock, max_age, removals >>

\* Where a caller of cleanup_expired_files goes on when it returns.
AfterCleanup(op) ==
  CASE op = "register" -> "build"
    [] op = "resolve" -> "get"
    [] OTHER -> "done"

\* cleanup_expired_files up to the lock: the limit is fixed, a limit <= 0
\* returns at once, otherwise the clock is read.
CleanupEnter(t) ==
  /\ janitor[t].pc = "cleanup"
  /\ LET age_limit == AgeLimit(janitor[t].max_age, max_age)
     IN  janitor' = [ janitor EXCEPT
           ![t].age_limit = age_limit,
           ![t].now = IF age_limit <= 0 THEN @ ELSE clock,
           ![t].pc = IF age_limit <= 0 THEN AfterCleanup(janitor[t].op) ELSE "sweep" ]
  /\ UNCHANGED << core, http, temp_files, uploads, clock, max_age, removals >>

\* Mutant: the stale entries are recorded but stay in the table.
SweepKeep(t) ==
  /\ janitor[t].pc = "sweep"
  /\ LET stale == StaleIds(temp_files, janitor[t].now, janitor[t].age_limit)
     IN  /\ janitor' = [ janitor EXCEPT ![t].stale_records = stale, ![t].pc = "unlink" ]
         /\ removals' = Removed(removals, stale)
  /\ UNCHANGED << core, http, temp_files, uploads, clock, max_age >>

\* The block under temp_files_lock: every access to temp_files is under this
\* lock, so the block is one step.  The stale entries are recorded and popped.
Sweep(t) ==
  /\ janitor[t].pc = "sweep"
  /\ LET stale == StaleIds(temp_files, janitor[t].now, janitor[t].age_limit)
     IN  /\ janitor' = [ janitor EXCEPT ![t].stale_records = stale, ![t].pc = "unlink" ]
         /\ temp_files' = Pop(temp_files, stale)
         /\ removals' = Removed(removals, stale)
  /\ UNCHANGED << core, http, uploads, clock, max_age >>

\* After the lock: the files of the stale records are unlinked (a file that
\* is gone is not an error), and cleanup_expired_files returns.
UnlinkStale(t) ==
  /\ janitor[t].pc = "unlink"
  /\ uploads' = uploads \ janitor[t].stale_records
  /\ janitor' = [ janitor EXCEPT ![t].pc = AfterCleanup(janitor[t].op) ]
  /\ UNCHANGED << core, http, temp_files, clock, max_age, removals >>

\* register_temp_file builds the entry: created_at is the time now.
BuildEntry(t) ==
  /\ janitor[t].pc = "build"
  /\ janitor' = [ janitor EXCEPT ![t].created_at = clock, ![t].pc = "insert" ]
  /\ UNCHANGED << core, http, temp_files, uploads, clock, max_age, removals >>

\* `with temp_files_lock: temp_files[file_id] = entry`
InsertEntry(t) ==
  /\ janitor[t].pc = "insert"
  /\ temp_files' = Put(temp_files, janitor[t].file_id,
                       Entry(janitor[t].file_id, janitor[t].created_at))
  /\ janitor' = [ janitor EXCEPT ![t].pc = "done" ]
  /\ UNCHANGED << core, http, uploads, clock, max_age, removals >>

\* `with temp_files_lock: entry = temp_files.get(file_id)`, then KeyError for
\* no entry, or the entry is returned.
GetEntry(t) ==
  /\ janitor[t].pc = "get"
  /\ janitor' = [ janitor EXCEPT
       ![t].result = IF janitor[t].file_id \in DOMAIN temp_files
                     THEN [ return |-> temp_files[janitor[t].file_id] ]
                     ELSE [ raise |-> "KeyError" ],
       ![t].at = clock,
       ![t].pc = "done" ]
  /\ UNCHANGED << core, http, temp_files, uploads, clock, max_age, removals >>

\* ----- the same functions as the handlers call them: the handlers are
\* coroutines without an await in these parts, so a call is one step.
\* cleanup_expired_files(): the table, the uploads and the history after it.
CleanedStale(table, now, age_limit) ==
  IF age_limit <= 0 THEN { } ELSE StaleIds(table, now, age_limit)

\* ------------------------------------------------------- app.py: /convert
\* What the form of a request may hold.
UploadNames == { Nothing, Some(<< "bump test", ".pdf" >>) }
FormReportIds == { None, "unknown_report" }
OcrMarkdowns == { << "bump test" >>, << "x" >> }

\* What became of storing the upload: written, or an OSError of open (no
\* file) or of write (the file is there).
StoreOutcomes == { "stored", "open_failed", "write_failed" }

HTTPException(status_code, detail) == [ status |-> status_code, detail |-> detail ]

\* A request arrives: the parameters are validated, the file id is drawn, the
\* upload is read and stored.
ConvertRequest ==
  /\ http.stage \in { "idle", "responded" }
  /\ pc[Loop] = "idle"
  /\ \E valid \in BOOLEAN, read \in BOOLEAN, store \in StoreOutcomes,
        name \in UploadNames, report_id \in FormReportIds, f \in FreshIds :
       LET original_filename == IF IsNone(name) THEN << "uploaded_document" >> ELSE name.some
           request == [ NoHttp EXCEPT !.filename = original_filename, !.report_id = report_id ]
           Fail(cause, e) == [ request EXCEPT !.stage = "responded", !.cause = cause,
                                              !.status = e.status, !.detail = e.detail ]
       IN  IF ~valid
           THEN /\ http' = Fail("validation",
                     HTTPException(400, [ text |-> << "Device must be 'cuda' or 'cpu'" >> ]))
                /\ UNCHANGED << uploads, removals >>
           ELSE IF ~read
           THEN /\ http' = [ Fail("read",
                     HTTPException(500, [ text |-> << "Failed to read uploaded file" >> ]))
                     EXCEPT !.file_id = f ]
                /\ removals' = Put(removals, f, 0)
                /\ UNCHANGED uploads
           ELSE IF store # "stored"
           THEN /\ http' = [ Fail("store",
                     HTTPException(500, [ text |-> << "Failed to store uploaded file" >> ]))
                     EXCEPT !.file_id = f ]
                /\ removals' = Put(removals, f, 0)
                /\ uploads' = IF store = "write_failed" THEN uploads \cup { f } ELSE uploads
           ELSE /\ http' = [ request EXCEPT !.stage = "stored", !.file_id = f ]
                /\ removals' = Put(removals, f, 0)
                /\ uploads' = uploads \cup { f }
  /\ UNCHANGED << core, janitor, temp_files, clock, max_age >>

\* run_docling returns (success, markdown, error); a failure raises the
\* HTTPException that the outer handler answers after unlinking the upload.
RunDocling ==
  /\ http.stage = "stored"
  /\ \E success \in BOOLEAN, markdown_content \in OcrMarkdowns :
       IF success
       THEN /\ http' = [ http EXCEPT !.stage = "ocr_done", !.ocr = TRUE,
                                     !.markdown = markdown_content ]
            /\ UNCHANGED uploads
       ELSE /\ http' = [ http EXCEPT !.stage = "responded", !.ocr = TRUE, !.cause = "ocr",
                                     !.status = 500,
                                     !.detail = [ text |-> << "Error running docling" >> ],
                                     !.unlinked = TRUE ]
            /\ uploads' = uploads \ { http.file_id }
  /\ UNCHANGED << core, janitor, temp_files, clock, max_age, removals >>

\* register_temp_file(file_id, ...): cleanup_expired_files(), then the entry
\* is put into temp_files.
RegisterTempFile ==
  /\ http.stage = "ocr_done"
  /\ LET stale == CleanedStale(temp_files, clock, max_age)
     IN  /\ temp_files' = Put(Pop(temp_files, stale), http.file_id, Entry(http.file_id, clock))
         /\ uploads' = uploads \ stale
         /\ removals' = Removed(removals, stale)
  /\ http' = [ http EXCEPT !.stage = "registered" ]
  /\ UNCHANGED << core, janitor, clock, max_age >>

\* convert_markdown_to_json(markdown_content, report_id=report_id,
\* original_filename=original_filename) is called.
Dispatch ==
  /\ http.stage = "registered"
  /\ Call(Loop, { http.markdown }, { Some(http.filename) }, { http.report_id })

\* ReportCandidate.as_dict
CandidateAsDict(c) ==
  [ id |-> c.report_id, name |-> c.display_name, score |-> c.score,
    matched_keywords |-> c.matched_keywords ]

\* Mutant: a ReportDetectionError is answered like an UnknownReportError.
DispatchFailureBadRequest(exc) ==
  CASE exc.kind \in { "UnknownReportError", "ReportDetectionError" } ->
         HTTPException(400, [ text |-> exc.message ])
    [] exc.kind = "ReportConversionError" ->
         HTTPException(500, [ text |-> exc.message ])
    [] OTHER ->
         HTTPException(500, [ text |-> << "Unexpected error during conversion" >> ])

\* The except clauses around the dispatch call: the HTTPException for what
\* the call raised; any other exception reaches the outer `except Exception`.
DispatchFailure(exc) ==
  CASE exc.kind = "UnknownReportError" ->
         HTTPException(400, [ text |-> exc.message ])
    [] exc.kind = "ReportDetectionError" ->
         HTTPException(409, [ message |-> exc.message,
                              candidates |-> [ i \in 1..Len(exc.candidates) |->
                                               CandidateAsDict(exc.candidates[i]) ] ])
    [] exc.kind = "ReportConversionError" ->
         HTTPException(500, [ text |-> exc.message ])
    [] OTHER ->
         HTTPException(500, [ text |-> << "Unexpected error during conversion" >> ])

\* The dispatch call is over: the handler answers with the content, or
\* unlinks the upload and answers with the HTTPException.
Respond ==
  /\ http.stage = "registered"
  /\ pc[Loop] = "done"
  /\ IF outcome[Loop].kind = "outcome"
     THEN /\ http' = [ http EXCEPT !.stage = "responded", !.dispatched = TRUE, !.status = 200,
                 !.detail = [ report |-> [ id |-> outcome[Loop].report_id,
                                           name |-> outcome[Loop].display_name,
                                           score |-> outcome[Loop].score,
                                           matched_keywords |-> outcome[Loop].matched_keywords ],
                              original_file |-> http.file_id ] ]
          /\ UNCHANGED uploads
     ELSE /\ http' = [ http EXCEPT !.stage = "responded", !.dispatched = TRUE,
                 !.cause = outcome[Loop].kind, !.raised = outcome[Loop],
                 !.status = DispatchFailure(outcome[Loop]).status,
                 !.detail = DispatchFailure(outcome[Loop]).detail,
                 !.unlinked = TRUE ]
          /\ uploads' = uploads \ { http.file_id }
  /\ pc' = [ pc EXCEPT ![Loop] = "idle" ]
  /\ args' = [ args EXCEPT ![Loop] = NoArgs ]
  /\ frame' = [ frame EXCEPT ![Loop] = NoFrame ]
  /\ outcome' = [ outcome EXCEPT ![Loop] = Nothing ]
  /\ UNCHANGED << cache, registries, module, lock, loads, files,
                  janitor, temp_files, clock, max_age, removals >>

\* GET /original/{file_id}: resolve_temp_file, 404 for no entry or for an
\* entry whose file is gone, else the file is served.
GetOriginal ==
  /\ http.stage \in { "idle", "responded" }
  /\ \E f \in FileIds :
       LET stale == CleanedStale(temp_files, clock, max_age)
           table == Pop(temp_files, stale)
           files_left == uploads \ stale
       IN  /\ temp_files' = table
           /\ uploads' = files_left
           /\ removals' = Removed(removals, stale)
           /\ http' = [ http EXCEPT !.original =
                [ file_id |-> f,
                  status |-> IF f \notin DOMAIN table THEN 404
                             ELSE IF table[f].path \notin files_left THEN 404
                             ELSE 200 ] ]
  /\ UNCHANGED << core, janitor, clock, max_age >>


\* ---------------------------------------------------------- specifications
\* The HTTP front end: /convert is a coroutine that calls the dispatch
\* synchronously, so one call is in flight at a time, on the event loop.
Next ==
  \/ Call(Loop, Markdowns, Filenames, ReportIdArgs)
  \/ CacheLookup(Loop)
  \/ BuildRecord(Loop)
  \/ CacheStore(Loop)
  \/ ExplicitLookup(Loop, "ExternalScriptConverter")
  \/ BeginScan(Loop)
  \/ DetectStep(Loop, "ExternalScriptConverter")
  \/ Decide(Loop)
  \/ CreateTemp(Loop)
  \/ WriteTemp(Loop)
  \/ LoadModule(Loop)
  \/ ExecModule(Loop, { "shipped" })
  \/ RunEntrypoint(Loop)
  \/ Cleanup(Loop)
  \/ Return(Loop)

Spec == Init /\ [][Next]_vars


\* The selection policy over converters of any class.
PolicyMarkdowns == { << "x" >> }
PolicyFilenames == { Nothing }
PolicyReportIdArgs == { None, "bump_test" }

PolicyNext ==
  \/ Call(Loop, PolicyMarkdowns, PolicyFilenames, PolicyReportIdArgs)
  \/ CacheLookup(Loop)
  \/ BuildRecord(Loop)
  \/ CacheStore(Loop)
  \/ ExplicitLookup(Loop, "BaseReportConverter")
  \/ BeginScan(Loop)
  \/ DetectStep(Loop, "BaseReportConverter")
  \/ Decide(Loop)
  \/ CreateTemp(Loop)
  \/ WriteTemp(Loop)
  \/ LoadModule(Loop)
  \/ ExecModule(Loop, { "shipped" })
  \/ RunEntrypoint(Loop)
  \/ Cleanup(Loop)
  \/ Return(Loop)

PolicySpec == Init /\ [][PolicyNext]_vars

\* detect as a function of its context: texts over the chunks of the
\* peak_report keywords, in either case, and filenames with and without them.
DetectLen == 5
DetectChunks == { "c", "hromatographi", "Peak", "x" }

RECURSIVE DetectTextsOfLen(_)
DetectTextsOfLen(n) ==
  IF n = 0 THEN { << >> }
  ELSE { Append(t, c) : t \in DetectTextsOfLen(n - 1), c \in DetectChunks }

DetectMarkdowns == UNION { DetectTextsOfLen(n) : n \in 0..DetectLen }

DetectFilenames ==
  { Nothing, Some(<< "x", ".pdf" >>), Some(<< "PEAK", "_", "peak", ".pdf" >>),
    Some(<< "c", "hromatographi", "c", ".pdf" >>) }

\* A converter a caller built from a ScriptSpec that declares no keywords.
BareConverter == "no_keywords"

DetectNext ==
  \/ DetectCall(Loop, DetectMarkdowns, DetectFilenames, ReportIds \cup { BareConverter })
  \/ CacheLookup(Loop)
  \/ BuildRecord(Loop)
  \/ CacheStore(Loop)
  \/ DetectReturn(Loop)
  \/ Return(Loop)

DetectSpec == Init /\ [][DetectNext]_vars

\* The bump-test scenario: markdowns made of "bump test" (in either case),
\* "pulse duration" and text that matches nothing, auto-detected.
ScenarioLen == 4
ScenarioChunks == { "bump test", "BUMP TEST", "pulse duration", "x" }

RECURSIVE ScenarioTextsOfLen(_)
ScenarioTextsOfLen(n) ==
  IF n = 0 THEN { << >> }
  ELSE { Append(t, c) : t \in ScenarioTextsOfLen(n - 1), c \in ScenarioChunks }

ScenarioMarkdowns == UNION { ScenarioTextsOfLen(n) : n \in 0..ScenarioLen }
ScenarioFilenames == { Nothing, Some(<< "x", ".pdf" >>) }

ScenarioNext ==
  \/ Call(Loop, ScenarioMarkdowns, ScenarioFilenames, { None })
  \/ CacheLookup(Loop)
  \/ BuildRecord(Loop)
  \/ CacheStore(Loop)
  \/ BeginScan(Loop)
  \/ DetectStep(Loop, "ExternalScriptConverter")
  \/ Decide(Loop)
  \/ CreateTemp(Loop)
  \/ WriteTemp(Loop)
  \/ LoadModule(Loop)
  \/ ExecModule(Loop, { "shipped" })
  \/ RunEntrypoint(Loop)
  \/ Cleanup(Loop)
  \/ Return(Loop)

ScenarioSpec == Init /\ [][ScenarioNext]_vars

\* Small inputs for the specifications about scripts and threads: a markdown
\* that selects bump_test, one that selects nothing, either route.
StatelessMarkdowns == { << "bump test" >>, << "x" >> }
StatelessReportIdArgs == { None, "bump_test" }

\* The dispatch over converters whose ScriptSpec may name any script.
ScriptsNext ==
  \/ Call(Loop, StatelessMarkdowns, PolicyFilenames, StatelessReportIdArgs)
  \/ CacheLookup(Loop)
  \/ BuildRecord(Loop)
  \/ CacheStore(Loop)
  \/ ExplicitLookup(Loop, "ExternalScriptConverter")
  \/ BeginScan(Loop)
  \/ DetectStep(Loop, "ExternalScriptConverter")
  \/ Decide(Loop)
  \/ CreateTemp(Loop)
  \/ WriteTemp(Loop)
  \/ LoadModule(Loop)
  \/ ExecModule(Loop, ScriptKinds)
  \/ RunEntrypoint(Loop)
  \/ Cleanup(Loop)
  \/ Return(Loop)

ScriptsSpec == Init /\ [][ScriptsNext]_vars

\* detect called from several threads while the front end converts: the
\* dispatch runs on the event loop, detect on any thread.
StatelessNext ==
  \/ Call(Loop, StatelessMarkdowns, PolicyFilenames, StatelessReportIdArgs)
  \/ ExplicitLookup(Loop, "ExternalScriptConverter")
  \/ BeginScan(Loop)
  \/ DetectStep(Loop, "ExternalScriptConverter")
  \/ Decide(Loop)
  \/ CreateTemp(Loop)
  \/ WriteTemp(Loop)
  \/ LoadModule(Loop)
  \/ ExecModule(Loop, { "shipped" })
  \/ RunEntrypoint(Loop)
  \/ Cleanup(Loop)
  \/ \E t \in Threads :
       \/ DetectCall(t, StatelessMarkdowns, PolicyFilenames, { "bump_test" })
       \/ CacheLookup(t)
       \/ BuildRecord(t)
       \/ CacheStore(t)
       \/ DetectReturn(t)
       \/ Return(t)

StatelessSpec == Init /\ [][StatelessNext]_vars

\* Library callers on several threads: they list the registry, call detect
\* on two converters and convert on one of them.
LibraryNext ==
  \E t \in Threads :
    \/ RegistryCall(t)
    \/ RegistryReturn(t)
    \/ DetectCall(t, { << "bump test" >> }, PolicyFilenames, { "bump_test", "peak_report" })
    \/ DetectReturn(t)
    \/ ConvertDirect(t, { "bump_test" })
    \/ ConvertEnter(t)
    \/ CacheLookup(t)
    \/ BuildRecord(t)
    \/ CacheStore(t)
    \/ LoadModule(t)
    \/ ExecModule(t, { "shipped" })
    \/ RunEntrypoint(t)
    \/ ConvertReturn(t)
    \/ Return(t)

LibrarySpec == Init /\ [][LibraryNext]_vars

\* Library callers of one converter's convert on several threads.
AdapterNext ==
  \E t \in Threads :
    \/ ConvertDirect(t, { "bump_test" })
    \/ CacheLookup(t)
    \/ BuildRecord(t)
    \/ CacheStore(t)
    \/ ConvertEnter(t)
    \/ LoadModule(t)
    \/ ExecModule(t, { "shipped" })
    \/ RunEntrypoint(t)
    \/ ConvertReturn(t)
    \/ Return(t)

AdapterSpec == Init /\ [][AdapterNext]_vars

\* Library callers of convert_markdown_to_json on several threads, in a
\* process where get_converter_registry has been called once before (the
\* front end lists the report types): the cache holds the registry built by
\* that call.
RECURSIVE BuiltRegistry(_)
BuiltRegistry(n) ==
  IF n = 0 THEN << >> ELSE DictInsert(BuiltRegistry(n - 1), RegistryOrder[n])

DispatchInit ==
  /\ FrontIdle(DefaultMaxAge)
  /\ pc = [ t \in Threads |-> "idle" ]
  /\ args = [ t \in Threads |-> NoArgs ]
  /\ frame = [ t \in Threads |-> NoFrame ]
  /\ outcome = [ t \in Threads |-> Nothing ]
  /\ registries = << BuiltRegistry(Len(RegistryOrder)) >>
  /\ cache = 1
  /\ module = { }
  /\ lock = { }
  /\ loads = { }
  /\ files = [ p \in { } |-> << >> ]

DispatchMarkdowns == { << "bump test" >>, << "x" >>, << Surrogate >> }

DispatchNext ==
  \E t \in Threads :
    \/ Call(t, DispatchMarkdowns, PolicyFilenames, { "bump_test" })
    \/ CacheLookup(t)
    \/ ExplicitLookup(t, "ExternalScriptConverter")
    \/ CreateTemp(t)
    \/ WriteTemp(t)
    \/ LoadModule(t)
    \/ ExecModule(t, { "shipped" })
    \/ RunEntrypoint(t)
    \/ Cleanup(t)
    \/ Return(t)

DispatchSpec == DispatchInit /\ [][DispatchNext]_vars

\* The configured lifetimes: none (cleanup is off) or one unit of the clock.
MaxAges == { 0, DefaultMaxAge }

\* The HTTP front end with its temp_files table: /convert and /original
\* requests on the event loop, while time passes.
FrontInit ==
  /\ \E age \in MaxAges : FrontIdle(age)
  /\ pc = [ t \in Threads |-> "idle" ]
  /\ args = [ t \in Threads |-> NoArgs ]
  /\ frame = [ t \in Threads |-> NoFrame ]
  /\ outcome = [ t \in Threads |-> Nothing ]
  /\ cache = 0
  /\ registries = << >>
  /\ module = { }
  /\ lock = { }
  /\ loads = { }
  /\ files = [ p \in { } |-> << >> ]

FrontNext ==
  \/ ConvertRequest
  \/ RunDocling
  \/ RegisterTempFile
  \/ Dispatch
  \/ CacheLookup(Loop)
  \/ BuildRecord(Loop)
  \/ CacheStore(Loop)
  \/ ExplicitLookup(Loop, "ExternalScriptConverter")
  \/ BeginScan(Loop)
  \/ DetectStep(Loop, "ExternalScriptConverter")
  \/ Decide(Loop)
  \/ CreateTemp(Loop)
  \/ WriteTemp(Loop)
  \/ LoadModule(Loop)
  \/ ExecModule(Loop, { "shipped" })
  \/ RunEntrypoint(Loop)
  \/ Cleanup(Loop)
  \/ Respond
  \/ GetOriginal
  \/ Tick

FrontSpec == FrontInit /\ [][FrontNext]_vars

\* cleanup_expired_files, register_temp_file and resolve_temp_file called
\* from several threads, one call each, while time passes, in a process that
\* has registered one upload when the clock stood at 0.
MaxAgeArgs == { Nothing, Some(0) }

JanitorInit ==
  /\ http = NoHttp
  /\ janitor = [ t \in Threads |-> NoJanitor ]
  /\ temp_files = Put(NoTempFiles, 1, Entry(1, 0))
  /\ uploads = { 1 }
  /\ clock = 0
  /\ max_age = DefaultMaxAge
  /\ removals = Put(NoRemovals, 1, 0)
  /\ pc = [ t \in Threads |-> "idle" ]
  /\ args = [ t \in Threads |-> NoArgs ]
  /\ frame = [ t \in Threads |-> NoFrame ]
  /\ outcome = [ t \in Threads |-> Nothing ]
  /\ cache = 0
  /\ registries = << >>
  /\ module = { }
  /\ lock = { }
  /\ loads = { }
  /\ files = [ p \in { } |-> << >> ]

JanitorNext ==
  \/ Tick
  \/ \E t \in Threads :
       \/ CleanupCall(t, MaxAgeArgs)
       \/ RegisterCall(t)
       \/ ResolveCall(t)
       \/ CleanupEnter(t)
       \/ Sweep(t)
       \/ UnlinkStale(t)
       \/ BuildEntry(t)
       \/ InsertEntry(t)
       \/ GetEntry(t)

JanitorSpec == JanitorInit /\ [][JanitorNext]_vars

\* Library callers of get_converter_registry on several threads.
ConcNext ==
  \E t \in Threads :
    \/ RegistryCall(t)
    \/ CacheLookup(t)
    \/ BuildRecord(t)
    \/ CacheStore(t)
    \/ RegistryReturn(t)
    \/ Return(t)

ConcSpec == Init /\ [][ConcNext]_vars


\* ------------------------------------------------------------------ claims
\* The places of a call inside _run_converter.
ConvertingPcs ==
  { "create_temp", "write_temp", "convert_load", "convert_exec", "convert_run", "cleanup" }

\* The call of thread t is on the auto-detect path / has made its decision.
Auto(t) == pc[t] # "idle" /\ frame[t].route = "auto"
Decided(t) == pc[t] \in ConvertingPcs \cup { "done" }

CallContext(t) == DetectionContext(args[t].markdown, args[t].original_filename)

\* What each registered converter's detect gives the call of t.
Detections(t) ==
  { [ report_id |-> r, result |-> detect(r, CallContext(t)) ] : r \in ReportIds }

\* The score in a detection (0: no result).
Score(d) == IF IsNone(d.result) THEN 0 ELSE d.result.score

\* The detections with the highest positive score.
TopOf(dets) == { d \in dets : Score(d) > 0 /\ \A e \in dets : Score(e) <= Score(d) }

\* Exactly one converter has the strictly highest positive score, at least 1.0.
WinnerIn(dets) ==
  /\ Cardinality(TopOf(dets)) = 1
  /\ \A d \in TopOf(dets) : Score(d) >= ConfidenceFloor

\* C1: on the auto-detect path conversion is started if and only if exactly one
\* registered converter has the strictly highest positive score and that score
\* is at least 1.0; the converter that is converted with is that one, and the
\* returned outcome carries its report_id, display name, score and keywords.
C1_AutoSelectsUniqueTop ==
  \A t \in Threads :
    (Auto(t) /\ Decided(t)) =>
      LET dets == Detections(t)
          top == TopOf(dets)
      IN  /\ (pc[t] \in ConvertingPcs \/ outcome[t].kind # "ReportDetectionError") <=> WinnerIn(dets)
          /\ pc[t] \in ConvertingPcs => \E d \in top : frame[t].converter = d.report_id
          /\ (pc[t] = "done" /\ outcome[t].kind = "outcome") =>
               \E d \in top :
                 /\ outcome[t].report_id = d.report_id
                 /\ outcome[t].report_id = frame[t].converter
                 /\ outcome[t].display_name = DisplayName[d.report_id]
                 /\ outcome[t].score = d.result.score
                 /\ outcome[t].matched_keywords = d.result.matched_keywords

C1_Witness ==
  \E t \in Threads :
    /\ Auto(t) /\ pc[t] = "done" /\ outcome[t].kind = "outcome"
    /\ Len(frame[t].results) > 1
    /\ frame[t].converts = 1

\* C2 as stated: every call with an explicit report_id (anything but None)
\* that is not a key of the registry fails with UnknownReportError.
C2_UnregisteredIdFails ==
  \A t \in Threads :
    (pc[t] = "done" /\ frame[t].route # "registry"
       /\ args[t].report_id # None /\ args[t].report_id \notin ReportIds) =>
      outcome[t].kind = "UnknownReportError"

\* C2 (amended): every call with a non-empty report_id that is not a key of
\* the registry fails with UnknownReportError, whose message names the id, and
\* never enters detection or conversion.
C2_NonEmptyUnregisteredIdFails ==
  \A t \in Threads :
    (pc[t] \notin { "idle", "get_registry", "build", "have_registry" }
       /\ frame[t].route # "registry"
       /\ args[t].report_id \notin { None, "" } /\ args[t].report_id \notin ReportIds) =>
      /\ pc[t] = "done"
      /\ outcome[t] = UnknownReportError(args[t].report_id)
      /\ \E i \in 1..Len(outcome[t].message) : outcome[t].message[i] = args[t].report_id
      /\ frame[t].detections = << >> /\ frame[t].converts = 0 /\ frame[t].created = 0

C2_Witness ==
  \E t \in Threads :
    /\ pc[t] = "done" /\ args[t].report_id = "unknown_report"
    /\ args[t].markdown = << "bump test" >>
    /\ outcome[t].kind = "UnknownReportError"

\* C3: on the auto-detect path, when no registered converter's detect gives a
\* positive score, the call fails with the "no match" ReportDetectionError
\* whose candidates are every registered converter exactly once, each with
\* score 0 and no matched keywords.
C3_NoMatchListsRegistry ==
  \A t \in Threads :
    (Auto(t) /\ Decided(t) /\ TopOf(Detections(t)) = { }) =>
      /\ pc[t] = "done"
      /\ outcome[t].kind = "ReportDetectionError"
      /\ outcome[t].message = MsgNoMatch
      /\ Len(outcome[t].candidates) = Len(registries[frame[t].reg])
      /\ Len(outcome[t].candidates) = Cardinality(ReportIds)
      /\ \A r \in ReportIds :
           Cardinality({ i \in 1..Len(outcome[t].candidates) :
                           outcome[t].candidates[i].report_id = r }) = 1
      /\ \A i \in 1..Len(outcome[t].candidates) :
           /\ outcome[t].candidates[i].score = 0
           /\ outcome[t].candidates[i].matched_keywords = << >>
           /\ outcome[t].candidates[i].display_name =
                DisplayName[outcome[t].candidates[i].report_id]

C3_Witness ==
  \E t \in Threads :
    /\ Auto(t) /\ pc[t] = "done" /\ args[t].markdown = << "x", "x" >>
    /\ outcome[t].kind = "ReportDetectionError" /\ outcome[t].message = MsgNoMatch

\* C4: on the auto-detect path, when two or more converters share the highest
\* positive score the call fails with the "ambiguous" ReportDetectionError and
\* nothing is converted; when exactly two tie, both are in the candidate list.
C4_TieIsAmbiguous ==
  \A t \in Threads :
    (Auto(t) /\ Decided(t)) =>
      LET top == { d.report_id : d \in TopOf(Detections(t)) }
      IN  Cardinality(top) >= 2 =>
            /\ pc[t] = "done"
            /\ outcome[t].kind = "ReportDetectionError"
            /\ outcome[t].message = MsgAmbiguous
            /\ frame[t].converts = 0 /\ frame[t].created = 0
            /\ Cardinality(top) = 2 =>
                 \A r \in top :
                   \E i \in 1..Len(outcome[t].candidates) : outcome[t].candidates[i].report_id = r

C4_Witness ==
  \E t \in Threads :
    /\ Auto(t) /\ pc[t] = "done"
    /\ outcome[t].kind = "ReportDetectionError" /\ outcome[t].message = MsgAmbiguous
    /\ Cardinality(TopOf(Detections(t))) = 2


\* The highest score among the candidates of a scan.
MaxScore(results) ==
  CHOOSE m \in { results[i].score : i \in 1..Len(results) } :
    \A i \in 1..Len(results) : results[i].score <= m

\* C5: on the auto-detect path, when there are candidates, the top two scores
\* differ and the top score is below the floor 1.0, the call fails with the
\* "low confidence" ReportDetectionError, which carries the top (at most
\* five) candidates, and nothing is converted.
C5_LowConfidenceFails ==
  \A t \in Threads :
    (Auto(t) /\ Decided(t) /\ frame[t].results # << >>) =>
      LET results == frame[t].results
          m == MaxScore(results)
          tops == { i \in 1..Len(results) : results[i].score = m }
      IN  (Cardinality(tops) = 1 /\ m < ConfidenceFloor) =>
            /\ pc[t] = "done"
            /\ outcome[t].kind = "ReportDetectionError"
            /\ outcome[t].message = MsgLowConfidence
            /\ frame[t].converts = 0 /\ frame[t].created = 0
            /\ LET candidates == outcome[t].candidates
               IN  /\ Len(candidates) = (IF Len(results) < TopN THEN Len(results) ELSE TopN)
                   /\ candidates[1].score = m
                   /\ \A i \in 1..Len(candidates) :
                        Cardinality({ j \in 1..Len(candidates) : candidates[j] = candidates[i] }) = 1
                   /\ \A i \in 1..Len(candidates) : \E j \in 1..Len(results) :
                        candidates[i] = results[j]
                   /\ \A j \in 1..Len(results) :
                        (\A i \in 1..Len(candidates) : candidates[i] # results[j]) =>
                          \A i \in 1..Len(candidates) : results[j].score <= candidates[i].score

C5_Witness ==
  \E t \in Threads :
    /\ Auto(t) /\ pc[t] = "done"
    /\ outcome[t].kind = "ReportDetectionError" /\ outcome[t].message = MsgLowConfidence
    /\ Len(frame[t].results) > TopN
    /\ \E i \in 1..Len(frame[t].results) : frame[t].results[i].score # outcome[t].candidates[1].score

\* C6: whenever a dispatch call that created a scratch file has returned or
\* raised, that file no longer exists, on every exit path.
C6_ScratchFileRemoved ==
  \A t \in Threads :
    (pc[t] = "done" /\ frame[t].created # 0) => frame[t].created \notin DOMAIN files

\* C7: every call of convert_markdown_to_json ends in one of four kinds: a
\* returned outcome, UnknownReportError, ReportDetectionError or
\* ReportConversionError; an exception of the conversion step that is not a
\* ReportConversionError is wrapped into one, a ReportConversionError of the
\* converter is passed on unchanged, and no other exception reaches the caller.
C7_FourOutcomeKinds ==
  \A t \in Threads :
    (pc[t] = "done" /\ frame[t].route \in { "explicit", "auto" }) =>
      /\ outcome[t].kind \in { "outcome", "UnknownReportError", "ReportDetectionError",
                               "ReportConversionError" }
      /\ "raise" \in DOMAIN frame[t].pending =>
           IF frame[t].pending.raise.kind = "ReportConversionError"
           THEN outcome[t] = frame[t].pending.raise
           ELSE outcome[t] = ReportConversionError(frame[t].pending.raise.message)

\* C8: the registry is built once: under any interleaving of concurrent first
\* calls of get_converter_registry the construction body runs once and every
\* caller receives the same registry.
C8_RegistryBuiltOnce ==
  /\ Len(registries) <= 1
  /\ \A t \in Threads : frame[t].reg # 0 => frame[t].reg = cache

\* C9: within one auto-detect call, detect is invoked on every registered
\* converter, each time with the one DetectionContext of the call, and all of
\* these calls are over before anything is converted; the candidates compared
\* are those of that scan.
C9_ScanBeforeConvert ==
  \A t \in Threads :
    Auto(t) =>
      /\ pc[t] \notin ConvertingPcs \cup { "done" } =>
           frame[t].converts = 0 /\ frame[t].created = 0
      /\ Decided(t) =>
           LET registry == registries[frame[t].reg]
               detections == frame[t].detections
           IN  /\ Len(detections) = Len(registry)
               /\ \A i \in 1..Len(registry) :
                    /\ detections[i].report_id = registry[i]
                    /\ detections[i].context = frame[t].context
                    /\ detections[i].context = CallContext(t)
               /\ \A r \in ReportIds : \E i \in 1..Len(detections) : detections[i].report_id = r
               /\ \A i \in 1..Len(frame[t].results) :
                    LET c == frame[t].results[i]
                        d == detect(c.report_id, frame[t].context)
                    IN  c.score = d.score /\ c.matched_keywords = d.matched_keywords

C9_Witness ==
  \E t \in Threads :
    /\ Auto(t) /\ pc[t] = "convert_run" /\ frame[t].converts = 1
    /\ frame[t].converter = "bump_test"
    /\ Len(frame[t].detections) = Len(RegistryOrder)

\* The backend replies that are a timeout of the request.
TimeoutReplies == { "connect_timeout", "read_timeout" }

\* The kind under which a call of thread t would end had the backend replied r.
KindFor(t, r) ==
  RunConverterExcept(ConvertCall("shipped", frame[t].converter,
                                 [ p \in { 1 } |-> args[t].markdown ], 1, r)).raise.kind

\* C10: when the backend request times out, the failure that the call ends in
\* is of a timeout kind of its own, different from the kind of the other
\* conversion failures (backend unreachable, invalid response, other faults).
C10_TimeoutKindDistinct ==
  \A t \in Threads :
    (pc[t] = "done" /\ frame[t].reply \in TimeoutReplies) =>
      \A r \in BackendReplies \ (TimeoutReplies \cup { "valid" }) :
        outcome[t].kind # KindFor(t, r)

\* The call of thread t took the explicit path with a registered report_id
\* and has passed the lookup.
ExplicitRegistered(t) ==
  /\ pc[t] \in ConvertingPcs \cup { "done" }
  /\ frame[t].route = "explicit"
  /\ args[t].report_id \in Keys(registries[frame[t].reg])

\* The parts of C11 that do not depend on the scratch file: detect is called
\* once, on the chosen converter; the call goes on to _run_converter whatever
\* detect returned and never ends in a lookup or detection error; a returned
\* outcome names the chosen converter, holds the data of its script, and
\* reports the score and keywords detect gave (0.0 and [] for no result).
ExplicitDetectOnlyReports(t) ==
  LET rid == args[t].report_id
      result == detect(rid, CallContext(t))
  IN  /\ frame[t].detections = << [ report_id |-> rid, context |-> CallContext(t) ] >>
      /\ frame[t].converter = rid
      /\ frame[t].converts <= 1
      /\ pc[t] = "done" =>
           /\ outcome[t].kind \notin { "UnknownReportError", "ReportDetectionError" }
           /\ outcome[t].kind = "outcome" =>
                /\ outcome[t].report_id = rid
                /\ outcome[t].data.schema = rid
                /\ IsNone(result) => outcome[t].score = 0 /\ outcome[t].matched_keywords = << >>
                /\ ~IsNone(result) => /\ outcome[t].score = result.score
                                      /\ outcome[t].matched_keywords = result.matched_keywords

\* C11 as stated: on the explicit path with a registered report_id, detect is
\* run once on the chosen converter only, convert is invoked on that converter
\* whatever detect returns, and with no detection result the outcome reports
\* score 0.0 and no matched keywords.
C11_ExplicitAlwaysConverts ==
  ExplicitRegistered(Loop) =>
    /\ ExplicitDetectOnlyReports(Loop)
    /\ pc[Loop] = "done" => frame[Loop].converts = 1

\* C11, amended: as above, with convert invoked (once, on the chosen
\* converter) whatever detect returns as soon as the markdown is written to
\* the scratch file; a call whose markdown cannot be written ends before
\* convert.
C11_ExplicitConvertsOnceWritten ==
  ExplicitRegistered(Loop) =>
    /\ ExplicitDetectOnlyReports(Loop)
    /\ pc[Loop] = "done" => (frame[Loop].converts = 1 <=> frame[Loop].temp_path # 0)
    /\ pc[Loop] = "done" => (frame[Loop].temp_path # 0 <=> Encodable(args[Loop].markdown))

\* An explicitly chosen converter whose detect gave no result returned an outcome.
C11_Witness ==
  /\ ExplicitRegistered(Loop)
  /\ pc[Loop] = "done"
  /\ IsNone(detect(args[Loop].report_id, CallContext(Loop)))
  /\ frame[Loop].converts = 1
  /\ outcome[Loop].kind = "outcome"

\* The state of the per-call state machine the call of thread t is in.  The
\* registry is fetched inside the lookup (explicit path) or at the start of
\* the scan (auto-detect path); Selected lasts until the scratch file is
\* written; Converting covers converter.convert and the clean-up.
MachineState(t) ==
  CASE pc[t] = "idle" -> "Start"
    [] pc[t] \in { "get_registry", "build", "have_registry" } ->
         IF frame[t].route = "explicit" THEN "ExplicitLookup" ELSE "AutoDetectScan"
    [] pc[t] = "scan" -> "AutoDetectScan"
    [] pc[t] \in { "create_temp", "write_temp" } -> "Selected"
    [] pc[t] \in { "convert_load", "convert_exec", "convert_run", "cleanup" } -> "Converting"
    [] pc[t] = "done" ->
         CASE outcome[t].kind = "outcome" -> "Succeeded"
           [] outcome[t].kind = "ReportConversionError" -> "Failed(ConversionError)"
           [] outcome[t].kind = "UnknownReportError" -> "Failed(UnknownReport)"
           [] outcome[t].kind = "ReportDetectionError" ->
                IF outcome[t].message = MsgAmbiguous THEN "Failed(DetectionAmbiguous)"
                ELSE IF outcome[t].message = MsgLowConfidence THEN "Failed(DetectionLowConfidence)"
                ELSE "Failed(NoMatch)"
           [] OTHER -> "Failed(other)"

TerminalStates ==
  { "Succeeded", "Failed(ConversionError)", "Failed(UnknownReport)",
    "Failed(DetectionAmbiguous)", "Failed(DetectionLowConfidence)", "Failed(NoMatch)" }

\* The edges of the state machine; a terminal state is left only by the
\* caller's next call.
MachineEdges ==
  { << "Start", "ExplicitLookup" >>, << "Start", "AutoDetectScan" >>,
    << "ExplicitLookup", "ExplicitLookup" >>, << "ExplicitLookup", "Selected" >>,
    << "ExplicitLookup", "Failed(UnknownReport)" >>,
    << "AutoDetectScan", "AutoDetectScan" >>, << "AutoDetectScan", "Selected" >>,
    << "AutoDetectScan", "Failed(DetectionAmbiguous)" >>,
    << "AutoDetectScan", "Failed(DetectionLowConfidence)" >>,
    << "AutoDetectScan", "Failed(NoMatch)" >>,
    << "Selected", "Selected" >>, << "Selected", "Converting" >>,
    << "Converting", "Converting" >>, << "Converting", "Succeeded" >>,
    << "Converting", "Failed(ConversionError)" >> }
  \cup { << s, "Start" >> : s \in TerminalStates }

\* C12: every step of a dispatch call is an edge of the per-call state machine
\* Start -> (ExplicitLookup | AutoDetectScan) -> Selected -> Converting ->
\* (Succeeded | Failed(ConversionError)), with the four direct failures; the
\* call ends in one of the six terminal states, convert is invoked at most
\* once per call, and only on entering Converting (nothing is retried).
C12_PerCallStateMachine ==
  [][ /\ << MachineState(Loop), MachineState(Loop)' >> \in MachineEdges
      /\ frame'[Loop].converts <= 1
      /\ frame'[Loop].converts > frame[Loop].converts =>
           MachineState(Loop) = "Selected" \/ pc[Loop] = "convert_load"
    ]_vars

\* The positions at which pat occurs in text.
Positions(text, pat) ==
  { i \in 1..Len(text) : i + Len(pat) - 1 <= Len(text) /\ SubSeq(text, i, i + Len(pat) - 1) = pat }

\* How many times text contains pat: every occurrence is counted.
Occurrences(text, pat) == Cardinality(Positions(text, pat))

\* The largest number of occurrences of pat in text no two of which overlap.
DisjointOccurrences(text, pat) ==
  LET disjoint == { S \in SUBSET Positions(text, pat) :
                      \A i, j \in S : i < j => i + Len(pat) <= j }
  IN  CHOOSE n \in 0..Len(text) :
        /\ \E S \in disjoint : Cardinality(S) = n
        /\ \A S \in disjoint : Cardinality(S) <= n

\* A direct detect call of thread t has returned.
Detected(t) == pc[t] = "done" /\ outcome[t].kind = "detection"

LoweredMarkdown(t) == Lower(args[t].markdown)
LoweredFilename(t) ==
  IF IsNone(args[t].original_filename) THEN << >> ELSE Lower(args[t].original_filename.some)

\* The sum of the credits of all the keywords of a converter.
RECURSIVE SumCredits(_, _, _)
SumCredits(keywords, text, filename) ==
  IF keywords = << >> THEN 0
  ELSE Credit(Head(keywords), text, filename) + SumCredits(Tail(keywords), text, filename)

\* The returned score is the sum of the credits (no result: no credit at all).
ScoreIsSumOfCredits(t) ==
  LET total == SumCredits(KeywordsOf(args[t].report_id), LoweredMarkdown(t), LoweredFilename(t))
  IN  IF IsNone(outcome[t].result) THEN total = 0
      ELSE outcome[t].result.score = ScoreUnit * total /\ total > 0

\* C13 as stated: a keyword K that the markdown contains exactly n >= 1 times
\* (case-insensitively, every occurrence counted) and the filename does not
\* contain is credited with exactly n, and the score is the sum of the credits.
C13_CreditIsOccurrences ==
  Detected(Loop) =>
    /\ \A i \in 1..Len(KeywordsOf(args[Loop].report_id)) :
         LET K == KeywordsOf(args[Loop].report_id)[i]
             n == Occurrences(LoweredMarkdown(Loop), Lower(Spell(K)))
         IN  (n >= 1 /\ ~Contains(LoweredFilename(Loop), Lower(Spell(K)))) =>
               Credit(K, LoweredMarkdown(Loop), LoweredFilename(Loop)) = n
    /\ ScoreIsSumOfCredits(Loop)

\* C13, amended: a keyword K of which the markdown contains (case-insensitively)
\* at least one occurrence, and at most n occurrences that do not overlap, and
\* that the filename does not contain, is credited with exactly n; the score
\* is the sum of the credits.
C13_CreditIsDisjointOccurrences ==
  Detected(Loop) =>
    /\ \A i \in 1..Len(KeywordsOf(args[Loop].report_id)) :
         LET K == KeywordsOf(args[Loop].report_id)[i]
             n == DisjointOccurrences(LoweredMarkdown(Loop), Lower(Spell(K)))
         IN  (n >= 1 /\ ~Contains(LoweredFilename(Loop), Lower(Spell(K)))) =>
               Credit(K, LoweredMarkdown(Loop), LoweredFilename(Loop)) = n
    /\ ScoreIsSumOfCredits(Loop)

\* A keyword occurs twice in the markdown, capitalised, and not in the
\* filename; another keyword occurs once.
C13_Witness ==
  /\ Detected(Loop)
  /\ args[Loop].report_id = "peak_report"
  /\ Occurrences(LoweredMarkdown(Loop), << "peak" >>) = 2
  /\ Occurrences(args[Loop].markdown, << "peak" >>) = 0
  /\ Occurrences(LoweredMarkdown(Loop), Lower(Spell("chromatographic"))) = 1
  /\ ~Contains(LoweredFilename(Loop), << "peak" >>)
  /\ outcome[Loop].result.score = 3 * ScoreUnit

\* C14: a keyword K that the markdown does not contain and the filename
\* contains (case-insensitively) is credited with exactly 1, however often it
\* occurs in the filename; for a keyword the markdown contains the credit is
\* the one the call would give with no filename; and with no filename given
\* only keywords of the markdown are credited.
C14_FilenameCreditsOnce ==
  Detected(Loop) =>
    /\ ScoreIsSumOfCredits(Loop)
    /\ \A i \in 1..Len(KeywordsOf(args[Loop].report_id)) :
      LET K == KeywordsOf(args[Loop].report_id)[i]
          kw == Lower(Spell(K))
          inMarkdown == Occurrences(LoweredMarkdown(Loop), kw)
          inFilename == Occurrences(LoweredFilename(Loop), kw)
          credit == Credit(K, LoweredMarkdown(Loop), LoweredFilename(Loop))
      IN  /\ (inMarkdown = 0 /\ inFilename >= 1) => credit = 1
          /\ inMarkdown >= 1 => credit = Credit(K, LoweredMarkdown(Loop), << >>)
          /\ (inMarkdown = 0 /\ inFilename = 0) => credit = 0
          /\ IsNone(args[Loop].original_filename) =>
               /\ credit > 0 <=> inMarkdown >= 1
               /\ outcome[Loop].result = detect(args[Loop].report_id,
                    DetectionContext(args[Loop].markdown, Some(<< "x", ".pdf" >>)))

\* The filename holds a keyword twice, in both cases, the markdown does not
\* hold it: score 1.
C14_Witness ==
  /\ Detected(Loop)
  /\ args[Loop].report_id = "peak_report"
  /\ Occurrences(LoweredFilename(Loop), << "peak" >>) = 2
  /\ Occurrences(LoweredMarkdown(Loop), << "peak" >>) = 0
  /\ outcome[Loop].result = [ score |-> ScoreUnit, matched_keywords |-> << "peak" >> ]

\* The registries that some call has received from get_converter_registry.
ReturnedRegistries == { frame[t].reg : t \in Threads } \ { 0 }

\* The number of records declared in _SCRIPT_REGISTRY.
DeclaredConverters == 6

\* C15: in every registry returned by get_converter_registry the converter
\* stored at each key is the one built from the record that declares this
\* report_id, no report_id is held twice, and every declared record is there:
\* six entries.
C15_ReportIdsUnique ==
  \A r \in ReturnedRegistries :
    LET registry == registries[r]
    IN  /\ Len(registry) = DeclaredConverters
        /\ Len(registry) = Len(RegistryOrder)
        /\ \A i \in 1..Len(registry) : registry[i] = RegistryOrder[i]
        /\ \A i, j \in 1..Len(registry) : registry[i] = registry[j] => i = j
        /\ Keys(registry) = ReportIds
        /\ Cardinality(Keys(registry)) = DeclaredConverters

\* Two threads hold registries that were built by different calls.
C15_Witness ==
  \E t1, t2 \in Threads :
    /\ pc[t1] = "done" /\ pc[t2] = "done"
    /\ outcome[t1].kind = "registry" /\ outcome[t2].kind = "registry"
    /\ frame[t1].reg # frame[t2].reg
    /\ frame[t1].reg \in ReturnedRegistries

RegisteredKeywords ==
  UNION { { Keywords[r][i] : i \in 1..Len(Keywords[r]) } : r \in ReportIds }

\* The markdown of the call of t holds "bump test" twice, "pulse duration"
\* once and no other registered keyword, and the filename holds none.
BumpScenario(t) ==
  /\ Occurrences(LoweredMarkdown(t), Lower(Spell("bump test"))) = 2
  /\ Occurrences(LoweredMarkdown(t), Lower(Spell("pulse duration"))) = 1
  /\ \A K \in RegisteredKeywords \ { "bump test", "pulse duration" } :
       Occurrences(LoweredMarkdown(t), Lower(Spell(K))) = 0
  /\ \A K \in RegisteredKeywords : Occurrences(LoweredFilename(t), Lower(Spell(K))) = 0

\* C17: for markdown with "bump test" twice, "pulse duration" once and no
\* other registered keyword (none in the filename), the scan yields a result
\* for bump_test only, auto-detect selects bump_test with score 3 and matched
\* keywords "bump test" and "pulse duration", and the outcome reports them.
C17_BumpTestScenario ==
  (Auto(Loop) /\ BumpScenario(Loop)) =>
    /\ \A i \in 1..Len(frame[Loop].results) :
         frame[Loop].results[i] =
           ReportCandidate("bump_test", 3 * ScoreUnit, << "bump test", "pulse duration" >>)
    /\ \A r \in ReportIds \ { "bump_test" } : IsNone(detect(r, CallContext(Loop)))
    /\ Decided(Loop) =>
         /\ Len(frame[Loop].detections) = DeclaredConverters
         /\ Len(frame[Loop].results) = 1
         /\ frame[Loop].converter = "bump_test"
         /\ frame[Loop].score = 3 * ScoreUnit
         /\ frame[Loop].matched_keywords = << "bump test", "pulse duration" >>
    /\ pc[Loop] = "done" =>
         /\ outcome[Loop].kind # "ReportDetectionError"
         /\ outcome[Loop].kind = "outcome" =>
              /\ outcome[Loop].report_id = "bump_test"
              /\ outcome[Loop].score = 3 * ScoreUnit
              /\ outcome[Loop].matched_keywords = << "bump test", "pulse duration" >>

\* The scenario's markdown, with other text in it and one "bump test" in
\* capitals, was converted by the bump_test script.
C17_Witness ==
  /\ Auto(Loop) /\ BumpScenario(Loop)
  /\ Len(args[Loop].markdown) = 4
  /\ Occurrences(args[Loop].markdown, << "BUMP TEST" >>) = 1
  /\ pc[Loop] = "done"
  /\ outcome[Loop].kind = "outcome"
  /\ outcome[Loop].data.schema = "bump_test"

\* The entrypoint of the call of t was called and the backend answered.
ExtractionRan(t) ==
  /\ frame[t].converts = 1
  /\ ~IsNone(frame[t].module)
  /\ frame[t].reply # None

\* What the extraction of the call of t gave: the entrypoint's return value
\* or exception, for the script loaded, the markdown written and the reply.
Extraction(t) ==
  Entrypoint(frame[t].module.script, frame[t].converter,
             [ p \in { 1 } |-> args[t].markdown ], 1, frame[t].reply)

\* C18: convert_markdown_to_json returns an outcome only when the extraction
\* ran to completion, and its data is exactly the mapping the entrypoint
\* returned; if the extraction raised or returned a value that is not a
\* mapping, the call failed with ReportConversionError and gave no outcome.
C18_OutcomeOnlyFromCompletedExtraction ==
  pc[Loop] = "done" =>
    /\ outcome[Loop].kind = "outcome" =>
         /\ ExtractionRan(Loop)
         /\ "return" \in DOMAIN Extraction(Loop)
         /\ outcome[Loop].data = Extraction(Loop).return
         /\ outcome[Loop].data.type = "dict"
         /\ outcome[Loop].data.md_content = args[Loop].markdown
    /\ (ExtractionRan(Loop) /\ ( \/ "raise" \in DOMAIN Extraction(Loop)
                                 \/ Extraction(Loop).return.type # "dict" )) =>
         /\ outcome[Loop].kind = "ReportConversionError"
         /\ "data" \notin DOMAIN outcome[Loop]

\* The entrypoint returned a list and the call failed.
C18_Witness ==
  /\ pc[Loop] = "done"
  /\ ExtractionRan(Loop)
  /\ "return" \in DOMAIN Extraction(Loop)
  /\ Extraction(Loop).return.type = "list"
  /\ outcome[Loop].kind = "ReportConversionError"

\* C19: whatever makes ExternalScriptConverter.convert fail (script file
\* missing, script failing while it is loaded, entrypoint missing or not
\* callable, unsupported signature, backend unreachable or timing out,
\* schema-validation failure, result that is not a dict), the exception that
\* leaves convert is a ReportConversionError.
C19_AdapterRaisesOnlyConversionError ==
  (pc[Loop] = "cleanup" /\ "raise" \in DOMAIN frame[Loop].pending) =>
    frame[Loop].pending.raise.kind = "ReportConversionError"

\* The converters (registry, report_id) some call has taken from a registry.
Adapters == { << r, rid >> : r \in 1..Len(registries), rid \in ReportIds }

\* The module objects exec_module completed for the converter conv.
LoadsOf(conv) == { o \in loads : << o.reg, o.report_id >> = conv }

\* The calls that are inside convert on the converter conv, or back from it.
CallsOn(conv) ==
  { t \in Threads : /\ pc[t] \in { "convert_load", "convert_exec", "convert_run", "cleanup", "done" }
                    /\ frame[t].route = "convert"
                    /\ << frame[t].reg, frame[t].converter >> = conv }

\* C20: under any interleaving of convert calls on one converter its script is
\* executed to completion at most once; every call that got a module got that
\* one module object, which is the one _module holds; _module is set by a
\* completed execution only, a load that fails leaves it unset, and a call
\* skips the load only if _module is set.
C20_ModuleLoadedOnce ==
  [][ /\ \A conv \in Adapters' :
           /\ Cardinality(LoadsOf(conv)') <= 1
           /\ CachedModule(conv)' \subseteq LoadsOf(conv)'
           /\ \A t \in CallsOn(conv)' :
                ~IsNone(frame'[t].module) =>
                  /\ LoadsOf(conv)' = { frame'[t].module }
                  /\ CachedModule(conv)' = { frame'[t].module }
      /\ \A t \in Threads :
           LET conv == << frame[t].reg, frame[t].converter >>
           IN  /\ (pc[t] = "convert_exec" /\ pc'[t] = "cleanup") =>
                    module' = module /\ CachedModule(conv)' = { }
               /\ (pc[t] = "convert_load" /\ pc'[t] = "convert_run") =>
                    CachedModule(conv) # { } /\ loads' = loads
    ]_vars

\* One call's load failed, and another call on the same converter has loaded
\* the script, which _module now holds.
C20_Witness ==
  \E t1, t2 \in Threads :
    /\ t1 # t2
    /\ pc[t1] = "done" /\ outcome[t1].kind = "ImportError"
    /\ frame[t1].route = "convert" /\ frame[t2].route = "convert"
    /\ << frame[t1].reg, frame[t1].converter >> = << frame[t2].reg, frame[t2].converter >>
    /\ pc[t2] = "done"
    /\ ~IsNone(frame[t2].module)
    /\ CachedModule(<< frame[t2].reg, frame[t2].converter >>) = { frame[t2].module }

\* The converters whose convert is running in some thread.
InConvert ==
  { << frame[t].reg, frame[t].converter >> :
      t \in { u \in Threads : pc[u] \in { "convert_load", "convert_exec", "convert_run", "cleanup" }
                              /\ frame[u].converts >= 1 } }

\* C21: building the registry, listing it and running detect leave the loaded
\* modules as they are: every step that loads a module, or sets a converter's
\* _module, is a step of a call inside that converter's own convert, so the
\* loaded modules are always modules of converters whose convert was invoked
\* (here: of no converter but bump_test, the one convert is called on).
C21_ModulesLoadedOnlyByConvert ==
  [][ /\ \A o \in (loads' \ loads) \cup (module' \ module) :
           /\ << o.reg, o.report_id >> \in InConvert
           /\ \E t \in Threads :
                /\ pc[t] = "convert_exec" /\ pc'[t] = "convert_run"
                /\ frame'[t].module = o
                /\ << frame[t].reg, frame[t].converter >> = << o.reg, o.report_id >>
      /\ \A o \in loads' \cup module' : o.report_id = "bump_test"
      /\ \A t \in Threads :
           (pc[t] \in { "get_registry", "build", "have_registry" } /\ pc'[t] # pc[t]
              /\ frame[t].route \in { "registry", "detect" }) =>
             module' = module /\ loads' = loads
    ]_vars

\* A registry listing and a detect on peak_report have returned while the
\* only module loaded is that of bump_test, whose convert was called.
C21_Witness ==
  \E t1, t2 \in Threads :
    /\ pc[t1] = "done" /\ outcome[t1].kind = "detection" /\ args[t1].report_id = "peak_report"
    /\ pc[t2] = "done" /\ outcome[t2].kind = "registry"
    /\ module # { }
    /\ \A o \in module : o.report_id = "bump_test" /\ o.reg = frame[t1].reg

\* The credit a keyword is due: its occurrences in the markdown that do not
\* overlap, or 1 for a keyword of the filename only.
DueCredit(K, text, filename) ==
  LET kw == Lower(Spell(K))
  IN  IF Occurrences(text, kw) > 0 THEN DisjointOccurrences(text, kw)
      ELSE IF Occurrences(filename, kw) > 0 THEN 1
      ELSE 0

RECURSIVE SumDue(_, _, _)
SumDue(keywords, text, filename) ==
  IF keywords = << >> THEN 0
  ELSE DueCredit(Head(keywords), text, filename) + SumDue(Tail(keywords), text, filename)

\* The keywords with a positive credit, in the order of registration.
RECURSIVE Credited(_, _, _)
Credited(keywords, text, filename) ==
  IF keywords = << >> THEN << >>
  ELSE (IF DueCredit(Head(keywords), text, filename) > 0 THEN << Head(keywords) >> ELSE << >>)
         \o Credited(Tail(keywords), text, filename)

\* C22: detect returns no result exactly when no keyword has a positive
\* credit (a converter without keywords never has); a result has a score of
\* at least 1 that is the sum of the credits, and lists exactly the keywords
\* with positive credit, at least one, in registration order.
C22_ResultIffCredit ==
  Detected(Loop) =>
    LET keywords == KeywordsOf(args[Loop].report_id)
        credited == Credited(keywords, LoweredMarkdown(Loop), LoweredFilename(Loop))
        total == SumDue(keywords, LoweredMarkdown(Loop), LoweredFilename(Loop))
        result == outcome[Loop].result
    IN  /\ IsNone(result) <=> credited = << >>
        /\ keywords = << >> => IsNone(result)
        /\ ~IsNone(result) =>
             /\ result.score = ScoreUnit * total
             /\ result.score >= ScoreUnit
             /\ result.matched_keywords = credited
             /\ result.matched_keywords # << >>

\* A converter without keywords gave no result for a markdown and a filename
\* that hold keywords of another converter.
C22_Witness ==
  /\ Detected(Loop)
  /\ args[Loop].report_id = BareConverter
  /\ IsNone(outcome[Loop].result)
  /\ Occurrences(LoweredMarkdown(Loop), << "peak" >>) > 0
  /\ Occurrences(LoweredFilename(Loop), << "peak" >>) > 0


\* The call of thread t holds a scratch file it created and has not removed.
HoldsScratch(t) ==
  pc[t] \in { "write_temp", "convert_load", "convert_exec", "convert_run", "cleanup" }
    /\ frame[t].route \in { "explicit", "auto" }

\* The call of thread t is inside converter.convert or about to enter it.
AtConverter(t) ==
  pc[t] \in { "convert_load", "convert_exec", "convert_run" }
    /\ frame[t].route \in { "explicit", "auto" }

\* C23: under any interleaving of dispatch calls, two calls in flight never
\* hold the same scratch path, the file a call hands to its converter exists
\* and holds that call's markdown, and the scratch file of a call in flight
\* is never removed by the cleanup of another call.
C23_ScratchFilesDisjoint ==
  /\ \A t \in Threads, u \in Threads :
       (t # u /\ HoldsScratch(t) /\ HoldsScratch(u)) => frame[t].created # frame[u].created
  /\ \A t \in Threads :
       HoldsScratch(t) => frame[t].created \in DOMAIN files
  /\ \A t \in Threads :
       AtConverter(t) =>
         /\ frame[t].temp_path = frame[t].created
         /\ files[frame[t].temp_path] = args[t].markdown

\* One call has removed its scratch file and returned while another call,
\* with a different markdown, is in its converter with its file intact.
C23_Witness ==
  \E t \in Threads, u \in Threads :
    /\ t # u
    /\ pc[t] = "done" /\ frame[t].route = "explicit" /\ frame[t].converts = 1
    /\ frame[t].temp_path \notin DOMAIN files
    /\ pc[u] = "convert_run"
    /\ args[u].markdown # args[t].markdown
    /\ files[frame[u].temp_path] = args[u].markdown


\* The place of a report_id in a registry's enumeration.
PlaceIn(registry, rid) == CHOOSE i \in 1..Len(registry) : registry[i] = rid

\* C24: the candidates of an "ambiguous" or "low confidence"
\* ReportDetectionError are between one and five; they are candidates of this
\* call's scan, each once, with the id, name, positive score and keywords the
\* scan recorded, in non-increasing score order with equal scores in registry
\* order, and no candidate left out precedes one that is listed.
C24_CandidatesAreTopFive ==
  \A t \in Threads :
    (Auto(t) /\ pc[t] = "done" /\ outcome[t].kind = "ReportDetectionError"
       /\ outcome[t].message \in { MsgAmbiguous, MsgLowConfidence }) =>
      LET candidates == outcome[t].candidates
          results == frame[t].results
          registry == registries[frame[t].reg]
          Before(c, d) == \/ c.score > d.score
                          \/ c.score = d.score
                               /\ PlaceIn(registry, c.report_id) < PlaceIn(registry, d.report_id)
      IN  /\ Len(candidates) >= 1
          /\ Len(candidates) <= TopN
          /\ Len(candidates) = TopN \/ Len(candidates) = Len(results)
          /\ \A i \in 1..Len(candidates) :
               /\ \E j \in 1..Len(results) : candidates[i] = results[j]
               /\ candidates[i].score > 0
               /\ candidates[i].display_name = DisplayName[candidates[i].report_id]
          /\ \A i \in 1..Len(candidates), j \in 1..Len(candidates) :
               i < j => Before(candidates[i], candidates[j])
          /\ \A j \in 1..Len(results) :
               (\A i \in 1..Len(candidates) : candidates[i] # results[j]) =>
                 \A i \in 1..Len(candidates) : Before(candidates[i], results[j])

\* Six converters had a positive score, the best two tied, and the list of
\* five leaves out a converter whose score equals that of a listed one.
C24_Witness ==
  \E t \in Threads :
    /\ Auto(t) /\ pc[t] = "done"
    /\ outcome[t].kind = "ReportDetectionError" /\ outcome[t].message = MsgAmbiguous
    /\ Len(frame[t].results) > TopN
    /\ Len(outcome[t].candidates) = TopN
    /\ \E j \in 1..Len(frame[t].results) :
         /\ \A i \in 1..TopN : outcome[t].candidates[i] # frame[t].results[j]
         /\ frame[t].results[j].score = outcome[t].candidates[TopN].score


\* C25: with the registered converters no call ends in the "low confidence"
\* ReportDetectionError: every candidate's score is a whole number of at
\* least 1, so a scan whose best candidate stands alone has a best score of
\* at least the floor 1.0.
C25_LowConfidenceUnreachable ==
  \A t \in Threads :
    Auto(t) =>
      /\ \A i \in 1..Len(frame[t].results) :
           /\ frame[t].results[i].score % ScoreUnit = 0
           /\ frame[t].results[i].score >= ScoreUnit
      /\ (Decided(t) /\ frame[t].results # << >>) =>
           LET m == MaxScore(frame[t].results)
           IN  Cardinality({ i \in 1..Len(frame[t].results) : frame[t].results[i].score = m }) = 1
                 => m >= ConfidenceFloor
      /\ pc[t] = "done" =>
           ~(outcome[t].kind = "ReportDetectionError" /\ outcome[t].message = MsgLowConfidence)

\* A scan ended with two candidates of different scores, the lower one 1.0,
\* and went on to convert.
C25_Witness ==
  \E t \in Threads :
    /\ Auto(t) /\ pc[t] = "create_temp"
    /\ Len(frame[t].results) = 2
    /\ frame[t].results[1].score # frame[t].results[2].score
    /\ \E i \in 1..2 : frame[t].results[i].score = ScoreUnit


\* The kinds of failure that are raised before the conversion step.
DetectionFailures == { "UnknownReportError", "ReportDetectionError" }

\* C26: a call that failed with UnknownReportError or ReportDetectionError
\* has invoked no converter's convert, created no scratch file, loaded no
\* script and sent no request to the model backend; the call that failed with
\* UnknownReportError has invoked no detect either.
C26_DetectionFailuresConvertNothing ==
  \A t \in Threads :
    (pc[t] = "done" /\ frame[t].route \in { "explicit", "auto" }
       /\ outcome[t].kind \in DetectionFailures) =>
      /\ frame[t].converts = 0
      /\ frame[t].created = 0
      /\ frame[t].temp_path = 0
      /\ frame[t].reply = None
      /\ IsNone(frame[t].module)
      /\ outcome[t].kind = "UnknownReportError" =>
           frame[t].detections = << >> /\ frame[t].results = << >>

\* A call with an unregistered id and a markdown that holds a keyword has
\* failed: no detect was invoked and no scratch file was created.
C26_Witness ==
  \E t \in Threads :
    /\ pc[t] = "done" /\ outcome[t].kind = "UnknownReportError"
    /\ args[t].report_id = "unknown_report"
    /\ args[t].markdown = << "bump test" >>
    /\ frame[t].detections = << >>
    /\ frame[t].created = 0


\* C27: a call whose report_id is None or the empty string takes the
\* auto-detect path and never ends in UnknownReportError; a call with any
\* other report_id takes the explicit-lookup path, never scans the registry
\* and invokes detect on at most the one converter it names.
C27_EmptyIdIsAbsent ==
  \A t \in Threads :
    (pc[t] # "idle" /\ frame[t].route \in { "explicit", "auto" }) =>
      IF args[t].report_id \in { None, "" }
      THEN /\ frame[t].route = "auto"
           /\ pc[t] = "done" => outcome[t].kind # "UnknownReportError"
           /\ Decided(t) => Len(frame[t].detections) = Len(registries[frame[t].reg])
      ELSE /\ frame[t].route = "explicit"
           /\ pc[t] # "scan"
           /\ frame[t].results = << >>
           /\ frame[t].context = Nothing
           /\ \A i \in 1..Len(frame[t].detections) :
                i = 1 /\ frame[t].detections[i].report_id = args[t].report_id

\* A call with the empty string as report_id has scanned the registry and
\* ended in a ReportDetectionError.
C27_Witness ==
  \E t \in Threads :
    /\ pc[t] = "done" /\ args[t].report_id = ""
    /\ frame[t].route = "auto"
    /\ Len(frame[t].detections) = Len(RegistryOrder)
    /\ outcome[t].kind = "ReportDetectionError"


\* C28: every entry of temp_files refers to an upload that exists, and a
\* /convert request that was answered with an HTTP error after unlinking its
\* upload has left no entry for its file id.
C28_EntriesHaveUploads ==
  /\ \A f \in DOMAIN temp_files : temp_files[f].path \in uploads
  /\ (http.stage = "responded" /\ http.status >= 400 /\ http.unlinked) =>
       http.file_id \notin DOMAIN temp_files


\* Thread t takes the step of cleanup_expired_files under the lock.
Sweeps(t) == janitor[t].pc = "sweep" /\ janitor'[t].pc = "unlink"

\* A cleanup pass with a positive limit removes exactly the entries older
\* than the limit at its reading of the clock and leaves the others as they
\* are; a pass with a limit <= 0 does not get to the table; and an entry
\* leaves the table only in the pass of a cleaner for which it is stale.
SweepExact ==
  /\ \A t \in Threads :
       Sweeps(t) =>
         /\ janitor[t].age_limit > 0
         /\ DOMAIN temp_files' =
              { f \in DOMAIN temp_files :
                  janitor[t].now - temp_files[f].created_at <= janitor[t].age_limit }
         /\ \A f \in DOMAIN temp_files' : temp_files'[f] = temp_files[f]
         /\ janitor'[t].stale_records = DOMAIN temp_files \ DOMAIN temp_files'
  /\ \A t \in Threads :
       (janitor[t].pc = "cleanup" /\ janitor'[t].pc # "cleanup"
          /\ AgeLimit(janitor[t].max_age, max_age) <= 0) =>
         janitor'[t].pc # "sweep" /\ temp_files' = temp_files
  /\ \A f \in DOMAIN temp_files \ DOMAIN temp_files' :
       \E t \in Threads :
         Sweeps(t) /\ janitor[t].now - temp_files[f].created_at > janitor[t].age_limit

\* The file ids whose entry has been put into the table.
Inserted ==
  { 1 } \cup { janitor[t].file_id : t \in { u \in Threads :
                 janitor[u].op = "register" /\ janitor[u].pc = "done" } }

\* Every stale entry was taken by one cleaner only, and an entry that is gone
\* was taken by a cleaner.
RemovedOnce ==
  /\ \A f \in DOMAIN removals : removals[f] <= 1
  /\ \A f \in DOMAIN removals :
       removals[f] = Cardinality({ t \in Threads : f \in janitor[t].stale_records })
  /\ \A f \in Inserted : f \in DOMAIN temp_files \/ removals[f] = 1

\* resolve_temp_file has returned an entry to thread t after a cleanup pass
\* with a positive limit.
Resolved(t) ==
  /\ janitor[t].op = "resolve" /\ janitor[t].pc = "done"
  /\ "return" \in DOMAIN janitor[t].result
  /\ janitor[t].age_limit > 0

\* C29 as stated: cleanup passes are exact and remove each stale entry once,
\* and the entry resolve_temp_file returns is not older than the limit.
C29_ResolveNeverReturnsOld ==
  /\ [][SweepExact]_vars
  /\ [](RemovedOnce)
  /\ [](\A t \in Threads :
          Resolved(t) => janitor[t].at - janitor[t].result.return.created_at <= janitor[t].age_limit)

\* C29 (amended): cleanup passes are exact and remove each stale entry once,
\* and the entry resolve_temp_file returns is not one that its own cleanup
\* pass found older than the limit.
C29_ResolveReturnsWhatItsPassKept ==
  /\ [][SweepExact]_vars
  /\ [](RemovedOnce)
  /\ [](\A t \in Threads :
          Resolved(t) => janitor[t].result.return.path \notin janitor[t].stale_records)

\* Two cleaners with a positive limit have both read the clock when the
\* registered entry was older than the limit; one of them took it, the other
\* found the table without it.
C29_Witness ==
  \E t \in Threads, u \in Threads :
    /\ t # u
    /\ janitor[t].op = "cleanup" /\ janitor[t].pc = "done" /\ janitor[t].age_limit > 0
    /\ janitor[u].op = "cleanup" /\ janitor[u].pc = "done" /\ janitor[u].age_limit > 0
    /\ janitor[t].stale_records = { 1 } /\ janitor[u].stale_records = { }
    /\ janitor[u].now > janitor[u].age_limit
    /\ 1 \notin DOMAIN temp_files /\ removals[1] = 1


\* The request was answered with an error after its upload had been stored
\* and the OCR collaborator called.
FailedInHandler == http.stage = "responded" /\ http.ocr /\ http.status # 200

\* C30: of the requests whose upload was stored, a failure of the OCR
\* collaborator is answered with 500 and no dispatch call is made; an
\* UnknownReportError of the dispatch call is answered with 400, a
\* ReportDetectionError with 409, the error's message and all its candidates,
\* a ReportConversionError with 500; and in each of these cases the upload has
\* been unlinked.  The dispatch call runs only once the OCR has succeeded.
C30_FailureStatuses ==
  /\ http.stage # "registered" => pc[Loop] = "idle"
  /\ FailedInHandler =>
       /\ http.unlinked /\ http.file_id \notin uploads
       /\ http.cause \in { "ocr", "UnknownReportError", "ReportDetectionError",
                           "ReportConversionError" }
       /\ http.cause = "ocr" =>
            http.status = 500 /\ ~http.dispatched /\ IsNone(http.raised)
       /\ http.cause # "ocr" => http.dispatched /\ http.raised.kind = http.cause
       /\ http.cause = "UnknownReportError" => http.status = 400
       /\ http.cause = "ReportConversionError" => http.status = 500
       /\ http.cause = "ReportDetectionError" =>
            /\ http.status = 409
            /\ http.detail.message = http.raised.message
            /\ Len(http.detail.candidates) = Len(http.raised.candidates)
            /\ \A i \in 1..Len(http.raised.candidates) :
                 /\ http.detail.candidates[i].id = http.raised.candidates[i].report_id
                 /\ http.detail.candidates[i].name = http.raised.candidates[i].display_name
                 /\ http.detail.candidates[i].score = http.raised.candidates[i].score
                 /\ http.detail.candidates[i].matched_keywords =
                      http.raised.candidates[i].matched_keywords

\* A request without report_id whose markdown matches no converter was
\* answered with 409 and the six candidates of the registry, and its upload
\* is gone.
C30_Witness ==
  /\ FailedInHandler
  /\ http.status = 409
  /\ http.detail.message = MsgNoMatch
  /\ Len(http.detail.candidates) = Len(RegistryOrder)
  /\ http.file_id \notin uploads

====
